---- MODULE Spec2Model ----
(***************************************************************************)
(* StellarRoute: the rate limiter of the API crate                         *)
(* (crates/api/src/middleware/rate_limit.rs), the offer ingestion of       *)
(* the indexer crate (crates/indexer/src/sdex.rs), with the pairs route,   *)
(* the error mapping and the response models of the API crate.             *)
(*                                                                         *)
(* Time is counted in ticks, TicksPerSec ticks to the second, so that the  *)
(* truncation of Duration::as_secs is visible.  `now` is the monotonic     *)
(* clock (Instant::now); unix_now() is the wall clock in whole seconds.    *)
(***************************************************************************)
EXTENDS Integers, Sequences, FiniteSets, TLC

VARIABLES
    backend,          \* Backend enum: "InMemory" or "Redis" (fixed at construction)
    endpoint_config,  \* EndpointConfig: the four groups' max_requests and the window
    now,              \* monotonic clock, in ticks
    windows,          \* InMemoryStore.windows: key -> (count, window_start), None if absent
    redis,            \* the Redis server's keyspace: key -> (count, expiry), None if absent
    mutex,            \* holder of the backend's tokio Mutex, None when free
    req,              \* per in-flight request: the position and locals of RateLimitService::call
    served,           \* number of requests that entered call so far
    out,              \* what a call returning in the last step gave its caller (else NoOut)
    hist,             \* history: per key, the finished checks in order of completion
    ix,               \* per SdexIndexer process: its mode, position and locals
    sdex_offers,      \* table sdex_offers: a set of rows
    assets,           \* table assets: a set of rows
    dbnow,            \* the database clock read by NOW()
    budget,           \* fetches and stream items Horizon still answers (-1: no end)
    call,             \* the last call of a helper of the API crate: function, argument, result
    cache,            \* AppState.cache: whether configured, its Mutex, the value under pairs:list
    lp,               \* per in-flight GET /api/v1/pairs: the position and locals of list_pairs
    clock             \* the time of the API process and of its Redis, in seconds

\* The variables of the rate limiter, those of the indexer processes and those of
\* the handlers and helpers of the API
limiter == <<backend, endpoint_config, now, windows, redis, mutex, req, served, out, hist>>

indexer == <<ix, sdex_offers, assets, dbnow, budget>>

api == <<call, cache, lp, clock>>

vars == <<limiter, indexer, api>>

None == "none"

\* ------------------------------------------------------------------ bounds

MaxReqs == 3        \* requests entering the service in one behaviour
MaxTime == 3        \* last tick of the clock
MaxLimit == 2       \* largest max_requests of a configuration
TicksPerSec == 2    \* clock resolution
WindowSecs == 1     \* RATE_LIMIT_WINDOW_SECS of the configuration
IdBits == 3         \* width of an offer id, in bits
MaxFetches == 2     \* fetches and stream items Horizon answers in one behaviour
MaxDbTime == 1      \* last value of the database clock
MaxClock == 11      \* last value of the clock of the API process, in seconds

Procs == {"r1", "r2"}     \* request slots that can be in flight together

Writers == {"w1", "w2"}   \* SdexIndexer processes writing to the one database

\* ------------------------------------------------------------------ strings

Digit(d) ==
    CASE d = 0 -> "0" [] d = 1 -> "1" [] d = 2 -> "2" [] d = 3 -> "3" [] d = 4 -> "4"
      [] d = 5 -> "5" [] d = 6 -> "6" [] d = 7 -> "7" [] d = 8 -> "8" [] d = 9 -> "9"

RECURSIVE to_string(_)
\* to_string of an integer: the decimal digits, most significant first, after a
\* minus sign for a negative number
to_string(n) ==
    IF n < 0 THEN "-" \o to_string(0 - n)
    ELSE IF n < 10 THEN Digit(n)
    ELSE to_string(n \div 10) \o Digit(n % 10)

\* The request paths the model sends, as character sequences.
Chars(path) ==
    CASE path = "/api/v1/pairs" -> <<"/","a","p","i","/","v","1","/","p","a","i","r","s">>
      [] path = "/api/v1/orderbook" ->
            <<"/","a","p","i","/","v","1","/","o","r","d","e","r","b","o","o","k">>
      [] path = "/api/v1/quote" -> <<"/","a","p","i","/","v","1","/","q","u","o","t","e">>
      [] path = "/health" -> <<"/","h","e","a","l","t","h">>
      [] path = "/pairs" -> <<"/","p","a","i","r","s">>
      [] path = "/api/v1/pairsx" -> <<"/","a","p","i","/","v","1","/","p","a","i","r","s","x">>
      [] path = "/api/v1/orderbook/X/Y" ->
            <<"/","a","p","i","/","v","1","/","o","r","d","e","r","b","o","o","k","/","X","/","Y">>
      [] path = "/api/v1/quote/X" ->
            <<"/","a","p","i","/","v","1","/","q","u","o","t","e","/","X">>
      [] path = "/api/v1" -> <<"/","a","p","i","/","v","1">>
      [] path = "/api/v2/pairs" -> <<"/","a","p","i","/","v","2","/","p","a","i","r","s">>
      [] path = "//a/b/" -> <<"/","/","a","/","b","/">>
      [] path = "/" -> <<"/">>

Paths == {"/api/v1/pairs", "/health"}

starts_with(s, prefix) ==
    Len(s) >= Len(prefix) /\ SubSeq(s, 1, Len(prefix)) = prefix

RECURSIVE trim_start_slash(_)
trim_start_slash(s) ==
    IF s # <<>> /\ Head(s) = "/" THEN trim_start_slash(Tail(s)) ELSE s

replace_slash(s) == [i \in 1..Len(s) |-> IF s[i] = "/" THEN "_" ELSE s[i]]

RECURSIVE Join(_)
Join(s) == IF s = <<>> THEN "" ELSE Head(s) \o Join(Tail(s))

\* ------------------------------------------------------------------ configuration

\* EndpointConfig::for_path: the group whose prefix the path starts with
for_path(path) ==
    IF starts_with(Chars(path), Chars("/api/v1/pairs")) THEN "pairs"
    ELSE IF starts_with(Chars(path), Chars("/api/v1/orderbook")) THEN "orderbook"
    ELSE IF starts_with(Chars(path), Chars("/api/v1/quote")) THEN "quote"
    ELSE "default"

\* Mutant of path_to_slug: one leading slash is stripped, the others are kept
path_to_slug_StripsOneSlash(path) ==
    IF starts_with(Chars(path), Chars("/api/v1/pairs")) THEN "pairs"
    ELSE IF starts_with(Chars(path), Chars("/api/v1/orderbook")) THEN "orderbook"
    ELSE IF starts_with(Chars(path), Chars("/api/v1/quote")) THEN "quote"
    ELSE Join(Tail(Chars(path)))

\* path_to_slug
path_to_slug(path) ==
    IF starts_with(Chars(path), Chars("/api/v1/pairs")) THEN "pairs"
    ELSE IF starts_with(Chars(path), Chars("/api/v1/orderbook")) THEN "orderbook"
    ELSE IF starts_with(Chars(path), Chars("/api/v1/quote")) THEN "quote"
    ELSE Join(replace_slash(trim_start_slash(Chars(path))))

\* RateLimitConfig of a group: max_requests and window (a Duration, here in ticks)
ConfigOf(group) ==
    [max_requests |-> endpoint_config[group], window |-> endpoint_config.window * TicksPerSec]

\* The configurations a layer is built with: the API groups share one limit, the
\* default group has its own; the window is shared by all groups.
Configs ==
    { [pairs |-> a, orderbook |-> a, quote |-> a, default |-> b, window |-> WindowSecs] :
        a \in 0..MaxLimit, b \in {MaxLimit} }

\* ------------------------------------------------------------------ client identity

\* str::trim of the header tokens of the model
trim(tok) ==
    CASE tok = " 10.0.0.1" -> "10.0.0.1"
      [] tok = " 10.0.0.2 " -> "10.0.0.2"
      [] tok = " " -> ""
      [] OTHER -> tok

\* str::parse::<IpAddr>: the address literals among the header tokens of the model,
\* as the parsed address prints; None for Err
ParseIp(tok) ==
    IF tok \in {"10.0.0.1", "10.0.0.2", "203.0.113.5"} THEN tok
    ELSE IF tok \in {"2001:db8::1", "2001:DB8::1"} THEN "2001:db8::1"
    ELSE None

\* The header sets of the requests the model sends.  xff is the X-Forwarded-For
\* value split on ',' (the empty sequence when the header is absent); xreal the
\* X-Real-IP value (None when absent).
Clients ==
    { [xff |-> <<"10.0.0.1", "10.9.9.9">>, xreal |-> None],
      [xff |-> <<"not-an-ip">>, xreal |-> "10.0.0.2"] }

\* Mutant of extract_ip: a malformed X-Forwarded-For ends the search
extract_ip_StopsAtForwardedFor(h) ==
    IF h.xff # <<>>
    THEN IF ParseIp(trim(h.xff[1])) # None THEN ParseIp(trim(h.xff[1])) ELSE "127.0.0.1"
    ELSE IF h.xreal # None /\ ParseIp(trim(h.xreal)) # None THEN ParseIp(trim(h.xreal))
    ELSE "127.0.0.1"

\* extract_ip
extract_ip(h) ==
    IF h.xff # <<>> /\ ParseIp(trim(h.xff[1])) # None THEN ParseIp(trim(h.xff[1]))
    ELSE IF h.xreal # None /\ ParseIp(trim(h.xreal)) # None THEN ParseIp(trim(h.xreal))
    ELSE "127.0.0.1"

\* format!("rate_limit:{}:{}", endpoint_slug, ip)
KeyOf(path, h) == "rate_limit:" \o path_to_slug(path) \o ":" \o extract_ip(h)

\* The requests the model sends: <<path, headers>>, two clients on the pairs route
Requests == { r \in Paths \X Clients : r[1] = "/api/v1/pairs" }

\* The requests sent to a service over the Redis backend: one of the two clients
RedisRequests == { r \in Requests : r[2].xreal = None }

Keys == { KeyOf(r[1], r[2]) : r \in Requests }

\* ------------------------------------------------------------------ clocks

\* Duration::as_secs: whole seconds, truncated
as_secs(d) == d \div TicksPerSec

\* unix_now(): wall-clock seconds
unix_now == now \div TicksPerSec

\* u64::saturating_sub
saturating_sub(a, b) == IF a >= b THEN a - b ELSE 0

\* ------------------------------------------------------------------ offers and assets

\* Asset: Native, CreditAlphanum4 { asset_code, asset_issuer } and
\* CreditAlphanum12 { asset_code, asset_issuer }
Native == [variant |-> "Native", asset_code |-> None, asset_issuer |-> None]

CreditAlphanum4(code, issuer) ==
    [variant |-> "CreditAlphanum4", asset_code |-> code, asset_issuer |-> issuer]

CreditAlphanum12(code, issuer) ==
    [variant |-> "CreditAlphanum12", asset_code |-> code, asset_issuer |-> issuer]

\* Mutant of asset_key: both credit variants answer the tag credit_alphanum4
asset_key_OneCreditTag(a) ==
    IF a.variant = "Native" THEN <<"native", None, None>>
    ELSE <<"credit_alphanum4", a.asset_code, a.asset_issuer>>

\* Asset::key: (asset_type, Option code, Option issuer)
asset_key(a) ==
    CASE a.variant = "Native" -> <<"native", None, None>>
      [] a.variant = "CreditAlphanum4" ->
            <<"credit_alphanum4", a.asset_code, a.asset_issuer>>
      [] a.variant = "CreditAlphanum12" ->
            <<"credit_alphanum12", a.asset_code, a.asset_issuer>>

\* The asset object of a wire offer; an absent field is None
AssetJSON(type, code, issuer) ==
    [asset_type |-> type, asset_code |-> code, asset_issuer |-> issuer]

\* An Offer before any conversion succeeded
NoOffer ==
    [id |-> 0, seller |-> None, selling |-> Native, buying |-> Native, amount |-> None,
     price_n |-> 0, price_d |-> 0, price |-> None, last_modified_ledger |-> 0,
     last_modified_time |-> None]

\* Conversion of the asset object: the variant named by asset_type; a credit asset
\* needs its code and its issuer, an unknown asset_type is rejected
ParseAsset(j) ==
    CASE j.asset_type = "native" -> [ok |-> TRUE, asset |-> Native]
      [] j.asset_type = "credit_alphanum4" /\ j.asset_code # None /\ j.asset_issuer # None ->
            [ok |-> TRUE, asset |-> CreditAlphanum4(j.asset_code, j.asset_issuer)]
      [] j.asset_type = "credit_alphanum12" /\ j.asset_code # None /\ j.asset_issuer # None ->
            [ok |-> TRUE, asset |-> CreditAlphanum12(j.asset_code, j.asset_issuer)]
      [] OTHER -> [ok |-> FALSE, asset |-> Native]

\* The value of a decimal digit, -1 for any other character
DigitVal(c) ==
    CASE c = "0" -> 0 [] c = "1" -> 1 [] c = "2" -> 2 [] c = "3" -> 3 [] c = "4" -> 4
      [] c = "5" -> 5 [] c = "6" -> 6 [] c = "7" -> 7 [] c = "8" -> 8 [] c = "9" -> 9
      [] OTHER -> -1

\* The largest offer id: ids are unsigned integers of IdBits bits
IdMax == 2 ^ IdBits - 1

RECURSIVE ParseDigits(_, _)
\* The digits of cs read after the value acc; -1 on a character that is no digit
\* and on a value above IdMax
ParseDigits(cs, acc) ==
    IF cs = <<>> THEN acc
    ELSE LET v == DigitVal(Head(cs))
         IN  IF v < 0 \/ acc * 10 + v > IdMax THEN -1
             ELSE ParseDigits(Tail(cs), acc * 10 + v)

\* str::parse::<u64> of the wire id, given as its characters; -1 for Err
ParseId(cs) == IF cs = <<>> THEN -1 ELSE ParseDigits(cs, 0)

\* Offer::try_from(HorizonOffer): the id parsed as unsigned, both assets converted,
\* (n, d) adopted from price_r; rejected on a bad id, a bad asset, d = 0 and
\* selling = buying.  Every wire offer here carries price_r.
TryFrom(w) ==
    LET id == ParseId(w.id)
        selling == ParseAsset(w.selling)
        buying == ParseAsset(w.buying)
    IN  IF /\ id >= 0
           /\ selling.ok
           /\ buying.ok
           /\ w.price_r.d # 0
           /\ selling.asset # buying.asset
        THEN [ok |-> TRUE,
              offer |-> [id |-> id, seller |-> w.seller,
                         selling |-> selling.asset, buying |-> buying.asset,
                         amount |-> w.amount,
                         price_n |-> w.price_r.n, price_d |-> w.price_r.d,
                         price |-> w.price,
                         last_modified_ledger |-> w.last_modified_ledger,
                         last_modified_time |-> w.last_modified_time]]
        ELSE [ok |-> FALSE, offer |-> NoOffer]

\* A wire offer (HorizonOffer)
HorizonOffer(id, seller, selling, buying, amount, price, n, d, ledger, time) ==
    [id |-> id, seller |-> seller, selling |-> selling, buying |-> buying,
     amount |-> amount, price |-> price, price_r |-> [n |-> n, d |-> d],
     last_modified_ledger |-> ledger, last_modified_time |-> time]

XLM == AssetJSON("native", None, None)

USDC == AssetJSON("credit_alphanum4", "USDC", "GISSUER")

\* Offer 1 as Horizon reports it first, and after its seller changed it
Wire1a == HorizonOffer(<<"1">>, "GA", XLM, USDC, "100.0", "1.5", 3, 2, 10, None)

Wire1b == HorizonOffer(<<"1">>, "GB", USDC, XLM, "75.0", "0.5", 1, 2, 11, "t1")

\* Another offer, and a record whose id is no number
Wire2 == HorizonOffer(<<"2">>, "GA", USDC, XLM, "100.0", "1.5", 3, 2, 10, None)

WireBad == HorizonOffer(<<"N", "a", "N">>, "GA", XLM, USDC, "1.0", "1.0", 1, 1, 1, None)

\* Records with a price of denominator 0, and selling what they buy
WireZeroD == HorizonOffer(<<"2">>, "GA", XLM, USDC, "100.0", "1.5", 3, 0, 10, None)

WireSame == HorizonOffer(<<"2">>, "GA", USDC, USDC, "100.0", "1.5", 3, 2, 10, None)

\* ------------------------------------------------------------------ state

NoEntry == [present |-> FALSE, count |-> 0, start |-> 0]

NoInfo == [limit |-> 0, remaining |-> 0, reset |-> 0, denied |-> FALSE]

HeaderNames ==
    {"content-type", "x-ratelimit-limit", "x-ratelimit-remaining", "x-ratelimit-reset",
     "retry-after"}

NoHeaders == [h \in HeaderNames |-> None]

NoBody == [error |-> None, message |-> None, text |-> None]

NoResp == [status |-> 0, headers |-> NoHeaders, body |-> NoBody]

NoRedisKey == [present |-> FALSE, count |-> 0, exp |-> -1]

\* A request slot outside call: no path, no locals; counted (history) tells
\* whether the check of the request incremented the counter of its key
IdleReq ==
    [pc |-> "idle", path |-> None, hdr |-> [xff |-> <<>>, xreal |-> None],
     t0 |-> 0, cnt |-> 0, failed |-> {}, info |-> NoInfo, counted |-> FALSE]

\* Nothing returned yet
NoOut ==
    [kind |-> "none", by |-> None, fwd |-> 0, resp |-> NoResp]

\* What call returns: Ok(response) or Err, with the number of calls it made of the
\* inner service
Returned(p, kind, fwd, resp) == [kind |-> kind, by |-> p, fwd |-> fwd, resp |-> resp]

\* Mutant of key: the client ip is left out of the key, every request is charged to
\* the first client's counter
key_IgnoresIp(p) == KeyOf(req[p].path, [xff |-> <<"10.0.0.1">>, xreal |-> None])

key(p) == KeyOf(req[p].path, req[p].hdr)

config(p) == ConfigOf(for_path(req[p].path))

\* An SdexIndexer process that was not started: no page, no offer in hand
IdleWriter ==
    [mode |-> None, pc |-> "off", page |-> <<>>, at |-> 0, offer |-> NoOffer,
     indexed |-> 0, tried |-> <<>>, failed |-> {}, result |-> None, slept |-> 0,
     stream |-> None, bad |-> 0]

\* No indexer runs: empty tables, Horizon silent
IndexerOff ==
    /\ ix = [w \in Writers |-> IdleWriter]
    /\ sdex_offers = {}
    /\ assets = {}
    /\ dbnow = 0
    /\ budget = 0

\* RateLimitLayer::in_memory / with_redis followed by layer(): an empty store, a
\* free mutex, no request in flight
LimiterInit ==
    /\ endpoint_config \in Configs
    /\ now = 0
    /\ windows = [k \in Keys |-> NoEntry]
    /\ redis = [k \in Keys |-> NoRedisKey]
    /\ mutex = None
    /\ req = [p \in Procs |-> IdleReq]
    /\ served = 0
    /\ out = NoOut
    /\ hist = [k \in Keys |-> <<>>]

\* The API process alone
\* No helper was called, no cache is configured, no list_pairs is in flight
NoCall == [fn |-> None, arg |-> None, ret |-> None]

\* history: the last write Redis accepted under pairs:list (a set, a set of another
\* type whose string is no PairsResponse, a delete), with the value and the expiry
NoWrite == [op |-> None, v |-> {}, decodes |-> FALSE, exp |-> 0]

NoCache == [present |-> FALSE, lock |-> None, val |-> {}, last |-> NoWrite]

IdlePairs == [pc |-> "idle", response |-> {}, result |-> None, seen |-> {}, at |-> 0]

ApiOff ==
    /\ call = NoCall
    /\ cache = NoCache
    /\ lp = [p \in Procs |-> IdlePairs]
    /\ clock = 0

InitCommon == LimiterInit /\ IndexerOff /\ ApiOff

\* ------------------------------------------------------------------ RateLimitService::call

\* The requests a service is sent: any of them over the in-memory backend, those of
\* one client over the Redis backend
RequestsIn == IF backend = "Redis" THEN RedisRequests ELSE Requests

\* call, up to the backend check: the request's path and headers, from which its
\* client ip, config, slug and key follow (key(p), config(p)); backend.check then
\* awaits the mutex
Arrive(p) ==
    /\ req[p].pc = "idle"
    /\ served < MaxReqs
    /\ \E r \in RequestsIn :
          req' = [req EXCEPT ![p] = [IdleReq EXCEPT !.pc = "wait", !.path = r[1], !.hdr = r[2]]]
    /\ served' = served + 1
    /\ out' = NoOut
    /\ UNCHANGED <<api, indexer, backend, endpoint_config, now, windows, redis, mutex, hist>>

\* The clock advances by one tick.
Tick ==
    /\ now < MaxTime
    /\ now' = now + 1
    /\ out' = NoOut
    /\ UNCHANGED <<api, indexer, backend, endpoint_config, windows, redis, mutex, req, served, hist>>

\* ------------------------------------------------------------------ in-memory backend

\* Mutant of MutexFree: the store is not locked, check runs unserialized
MutexFree_Always == TRUE

\* tokio Mutex::lock: granted only while no other task holds the guard
MutexFree == mutex = None

\* Backend::check, InMemory arm: store.lock().await hands the request the guard
MemAcquire(p) ==
    /\ backend = "InMemory"
    /\ req[p].pc = "wait"
    /\ MutexFree
    /\ mutex' = p
    /\ req' = [req EXCEPT ![p].pc = "mem_entry"]
    /\ out' = NoOut
    /\ UNCHANGED <<api, indexer, backend, endpoint_config, now, windows, redis, served, hist>>

\* Mutant of EntryAfterReset: the window is reset only strictly after its end
EntryAfterReset_StrictlyAfter(e, t, window) ==
    LET e0 == IF e.present THEN e ELSE [present |-> TRUE, count |-> 0, start |-> t]
    IN  IF t - e0.start > window
        THEN [present |-> TRUE, count |-> 0, start |-> t]
        ELSE e0

\* Mutant of EntryAfterReset: an expired window is not reset
EntryAfterReset_NeverResets(e, t, window) ==
    IF e.present THEN e ELSE [present |-> TRUE, count |-> 0, start |-> t]

\* InMemoryStore::check, first half: Instant::now(), entry().or_insert((0, now)),
\* the reset of an expired window, and the load of the counter
EntryAfterReset(e, t, window) ==
    LET e0 == IF e.present THEN e ELSE [present |-> TRUE, count |-> 0, start |-> t]
    IN  IF t - e0.start >= window
        THEN [present |-> TRUE, count |-> 0, start |-> t]
        ELSE e0

MemEntry(p) ==
    /\ req[p].pc = "mem_entry"
    /\ LET e == EntryAfterReset(windows[key(p)], now, config(p).window)
       IN  /\ windows' = [windows EXCEPT ![key(p)] = e]
           /\ req' = [req EXCEPT ![p].pc = "mem_decide", ![p].t0 = now, ![p].cnt = e.count]
    /\ out' = NoOut
    /\ UNCHANGED <<api, indexer, backend, endpoint_config, now, redis, mutex, served, hist>>

\* Mutant of MemInfo: the comparison is off by one, a request is allowed at the limit
MemInfo_OffByOne(cnt, max_requests, reset_unix) ==
    IF cnt <= max_requests
    THEN [limit |-> max_requests, remaining |-> max_requests - (cnt + 1),
          reset |-> reset_unix, denied |-> FALSE]
    ELSE [limit |-> max_requests, remaining |-> 0, reset |-> reset_unix, denied |-> TRUE]

\* Mutant of MemInfo: remaining is computed before the increment
MemInfo_RemainingBeforeIncrement(cnt, max_requests, reset_unix) ==
    IF cnt < max_requests
    THEN [limit |-> max_requests, remaining |-> max_requests - cnt,
          reset |-> reset_unix, denied |-> FALSE]
    ELSE [limit |-> max_requests, remaining |-> 0, reset |-> reset_unix, denied |-> TRUE]

\* InMemoryStore::check, second half: the decision from the loaded counter
MemInfo(cnt, max_requests, reset_unix) ==
    IF cnt < max_requests
    THEN [limit |-> max_requests, remaining |-> max_requests - (cnt + 1),
          reset |-> reset_unix, denied |-> FALSE]
    ELSE [limit |-> max_requests, remaining |-> 0, reset |-> reset_unix, denied |-> TRUE]

\* Mutant of MemCount: the increment is missing
MemCount_NeverIncrements(cnt, max_requests) == cnt

\* The counter after the decision: incremented on an allowed request only
MemCount(cnt, max_requests) == IF cnt < max_requests THEN cnt + 1 ELSE cnt

\* reset_unix = unix_now() + (config.window - now.duration_since(entry.1)).as_secs()
MemResetUnix(t, start, window) == unix_now + as_secs(window - (t - start))

\* The record of a finished check: when it read the clock, the window start it
\* decided under, and the decision
HistEntry(at, start, info) == [at |-> at, ws |-> start, info |-> info]

\* InMemoryStore::check from reset_unix on, and the drop of the guard on return
MemDecide(p) ==
    /\ req[p].pc = "mem_decide"
    /\ LET c == config(p)
           e == windows[key(p)]
           info == MemInfo(req[p].cnt, c.max_requests,
                           MemResetUnix(req[p].t0, e.start, c.window))
       IN  /\ windows' = [windows EXCEPT
                            ![key(p)].count = MemCount(req[p].cnt, c.max_requests)]
           /\ req' = [req EXCEPT ![p].pc = "decided", ![p].info = info,
                                 ![p].t0 = 0, ![p].cnt = 0,
                                 ![p].counted =
                                     MemCount(req[p].cnt, c.max_requests) = req[p].cnt + 1]
           /\ hist' = [hist EXCEPT ![key(p)] = Append(@, HistEntry(req[p].t0, e.start, info))]
    /\ mutex' = None
    /\ out' = NoOut
    /\ UNCHANGED <<api, indexer, backend, endpoint_config, now, redis, served>>

\* ------------------------------------------------------------------ Redis backend

\* The Redis server: a key is there while it has no expiry (exp = -1) or its
\* expiry lies in the future.
RedisLive(k) == redis[k].present /\ (redis[k].exp = -1 \/ now < redis[k].exp)

\* INCR key: the new value; a key that is absent or expired starts at 0, without TTL
RedisAfterIncr(k) ==
    IF RedisLive(k)
    THEN [redis[k] EXCEPT !.count = @ + 1]
    ELSE [present |-> TRUE, count |-> 1, exp |-> -1]

\* TTL key, in seconds as the server reports it (milliseconds rounded to the nearest
\* second); -1 for a key without expiry, -2 for no key
RedisTtlReply(k) ==
    IF ~RedisLive(k) THEN -2
    ELSE IF redis[k].exp = -1 THEN -1
    ELSE (((redis[k].exp - now) * 1000) \div TicksPerSec + 500) \div 1000

\* Backend::check, Redis arm: conn.lock().await hands the request the guard
RedisAcquire(p) ==
    /\ backend = "Redis"
    /\ req[p].pc = "wait"
    /\ MutexFree
    /\ mutex' = p
    /\ req' = [req EXCEPT ![p].pc = "incr"]
    /\ out' = NoOut
    /\ UNCHANGED <<api, indexer, backend, endpoint_config, now, windows, redis, served, hist>>

\* redis_check: conn.incr(key, 1) answers Ok(count); the EXPIRE follows only when
\* count == 1
PcAfterIncr(count) == IF count = 1 THEN "expire" ELSE "ttl"

RedisIncrOk(p) ==
    /\ req[p].pc = "incr"
    /\ LET r == RedisAfterIncr(key(p))
       IN  /\ redis' = [redis EXCEPT ![key(p)] = r]
           /\ req' = [req EXCEPT ![p].pc = PcAfterIncr(r.count), ![p].cnt = r.count,
                                 ![p].counted = TRUE]
    /\ out' = NoOut
    /\ UNCHANGED <<api, indexer, backend, endpoint_config, now, windows, mutex, served, hist>>

\* Mutant of FailOpenInfo: the limiter fails closed
FailOpenInfo_FailClosed(c) ==
    [limit |-> c.max_requests, remaining |-> 0,
     reset |-> unix_now + as_secs(c.window), denied |-> TRUE]

\* Backend::check, the None arm: the synthetic allow decision
FailOpenInfo(c) ==
    [limit |-> c.max_requests, remaining |-> c.max_requests,
     reset |-> unix_now + as_secs(c.window), denied |-> FALSE]

\* redis_check: conn.incr fails, redis_check returns None and Backend::check
\* answers with the synthetic decision; the guard is dropped
RedisIncrFail(p) ==
    /\ req[p].pc = "incr"
    /\ LET info == FailOpenInfo(config(p))
       IN  /\ req' = [req EXCEPT ![p].pc = "decided", ![p].info = info,
                                 ![p].failed = @ \cup {"INCR"}]
           /\ hist' = [hist EXCEPT ![key(p)] = Append(@, HistEntry(0, 0, info))]
    /\ mutex' = None
    /\ out' = NoOut
    /\ UNCHANGED <<api, indexer, backend, endpoint_config, now, windows, redis, served>>

\* redis_check: conn.expire(key, window_secs) succeeds (a key that expired in the
\* meantime is left alone by the server)
RedisExpireOk(p) ==
    /\ req[p].pc = "expire"
    /\ redis' = [redis EXCEPT ![key(p)] =
                    IF RedisLive(key(p)) THEN [@ EXCEPT !.exp = now + config(p).window]
                    ELSE @]
    /\ req' = [req EXCEPT ![p].pc = "ttl"]
    /\ out' = NoOut
    /\ UNCHANGED <<api, indexer, backend, endpoint_config, now, windows, mutex, served, hist>>

\* redis_check: conn.expire fails; the result is bound to _ and dropped
RedisExpireFail(p) ==
    /\ req[p].pc = "expire"
    /\ req' = [req EXCEPT ![p].pc = "ttl", ![p].failed = @ \cup {"EXPIRE"}]
    /\ out' = NoOut
    /\ UNCHANGED <<api, indexer, backend, endpoint_config, now, windows, redis, mutex, served, hist>>

\* Mutant of RedisInfo: a request is denied from the limit on, not above it
RedisInfo_DeniesAtLimit(count, max_requests, ttl_secs) ==
    LET denied == count >= max_requests
    IN  [limit |-> max_requests,
         remaining |-> IF denied THEN 0 ELSE saturating_sub(max_requests, count),
         reset |-> unix_now + ttl_secs,
         denied |-> denied]

\* redis_check, from reset on: the decision from the INCR count and the TTL
RedisInfo(count, max_requests, ttl_secs) ==
    LET denied == count > max_requests
    IN  [limit |-> max_requests,
         remaining |-> IF denied THEN 0 ELSE saturating_sub(max_requests, count),
         reset |-> unix_now + ttl_secs,
         denied |-> denied]

RedisFinish(p, ttl_secs, failedNow) ==
    /\ LET info == RedisInfo(req[p].cnt, config(p).max_requests, ttl_secs)
       IN  /\ req' = [req EXCEPT ![p].pc = "decided", ![p].info = info, ![p].cnt = 0,
                                 ![p].failed = @ \cup failedNow]
           /\ hist' = [hist EXCEPT ![key(p)] = Append(@, HistEntry(0, 0, info))]
    /\ mutex' = None
    /\ out' = NoOut
    /\ UNCHANGED <<api, indexer, backend, endpoint_config, now, windows, redis, served>>

\* redis_check: conn.ttl::<u64>(key) answers a number of seconds
RedisTtlOk(p) ==
    /\ req[p].pc = "ttl"
    /\ RedisTtlReply(key(p)) >= 0
    /\ RedisFinish(p, RedisTtlReply(key(p)), {})

\* redis_check: conn.ttl fails, or its reply (-1, -2) is no u64 number of seconds:
\* unwrap_or(window_secs)
RedisTtlFail(p) ==
    /\ req[p].pc = "ttl"
    /\ RedisFinish(p, as_secs(config(p).window), {"TTL"})

\* The request's future is dropped at an await of redis_check (the client went
\* away): the guard is released and nothing more of call runs.
RedisDrop(p) ==
    /\ req[p].pc \in {"incr", "expire", "ttl"}
    /\ req' = [req EXCEPT ![p] = IdleReq]
    /\ out' = Returned(p, "dropped", 0, NoResp)
    /\ mutex' = None
    /\ UNCHANGED <<api, indexer, backend, endpoint_config, now, windows, redis, served, hist>>

\* ------------------------------------------------------------------ responses

\* Mutant of add_rate_limit_headers: X-RateLimit-Remaining is left out
add_rate_limit_headers_NoRemaining(headers, info) ==
    [headers EXCEPT !["x-ratelimit-limit"] = to_string(info.limit),
                    !["x-ratelimit-reset"] = to_string(info.reset)]

\* add_rate_limit_headers: the three headers, each the decimal string of a field of
\* the decision (a string of digits is always a valid HeaderValue); insert replaces
\* a header of the same name
add_rate_limit_headers(headers, info) ==
    [headers EXCEPT !["x-ratelimit-limit"] = to_string(info.limit),
                    !["x-ratelimit-remaining"] = to_string(info.remaining),
                    !["x-ratelimit-reset"] = to_string(info.reset)]

\* (StatusCode::TOO_MANY_REQUESTS, Json(ErrorResponse::new(..))).into_response()
DeniedResponse ==
    [status |-> 429,
     headers |-> [NoHeaders EXCEPT !["content-type"] = "application/json"],
     body |-> [error |-> "rate_limit_exceeded",
               message |-> "Too many requests. Please try again later.",
               text |-> None]]

\* Mutant of RetryAfter: a plain subtraction instead of saturating_sub
RetryAfter_Unclamped(info) == info.reset - unix_now

\* call, the denied branch: the 429 response with the headers and Retry-After
RetryAfter(info) == saturating_sub(info.reset, unix_now)

\* Mutant of Deny: the denied request is passed to the inner service all the same
Deny_ForwardsAnyway(p) ==
    /\ req[p].pc = "decided"
    /\ req[p].info.denied
    /\ out' = Returned(p, "response", 1,
                       [DeniedResponse EXCEPT !.status = 200,
                                              !.headers = add_rate_limit_headers(@, req[p].info)])
    /\ req' = [req EXCEPT ![p] = IdleReq]
    /\ UNCHANGED <<api, indexer, backend, endpoint_config, now, windows, redis, mutex, served, hist>>

Deny(p) ==
    /\ req[p].pc = "decided"
    /\ req[p].info.denied
    /\ out' = Returned(p, "response", 0,
                       [DeniedResponse EXCEPT !.headers =
                           [add_rate_limit_headers(@, req[p].info) EXCEPT
                               !["retry-after"] = to_string(RetryAfter(req[p].info))]])
    /\ req' = [req EXCEPT ![p] = IdleReq]
    /\ UNCHANGED <<api, indexer, backend, endpoint_config, now, windows, redis, mutex, served, hist>>

\* What the inner service may answer: a plain 200, or an error page that already
\* carries a rate-limit header of its own
InnerResponses ==
    { [status |-> 200, headers |-> [NoHeaders EXCEPT !["content-type"] = "text/plain"],
       body |-> [NoBody EXCEPT !.text = "ok"]],
      [status |-> 500, headers |-> [NoHeaders EXCEPT !["x-ratelimit-limit"] = "999"],
       body |-> [NoBody EXCEPT !.text = "error"]] }

\* call, the allowed branch: inner.call(req).await answers Ok(response)
Forward(p) ==
    /\ req[p].pc = "decided"
    /\ ~req[p].info.denied
    /\ \E r \in InnerResponses :
          out' = Returned(p, "response", 1,
                          [r EXCEPT !.headers = add_rate_limit_headers(@, req[p].info)])
    /\ req' = [req EXCEPT ![p] = IdleReq]
    /\ UNCHANGED <<api, indexer, backend, endpoint_config, now, windows, redis, mutex, served, hist>>

\* call, the allowed branch: inner.call(req).await answers Err(e), which `?` returns
ForwardErr(p) ==
    /\ req[p].pc = "decided"
    /\ ~req[p].info.denied
    /\ out' = Returned(p, "error", 1, NoResp)
    /\ req' = [req EXCEPT ![p] = IdleReq]
    /\ UNCHANGED <<api, indexer, backend, endpoint_config, now, windows, redis, mutex, served, hist>>

\* ------------------------------------------------------------------ specifications

InitMem == backend = "InMemory" /\ InitCommon

InitRedis == backend = "Redis" /\ InitCommon

NextMem ==
    \/ Tick
    \/ \E p \in Procs :
          \/ Arrive(p)
          \/ MemAcquire(p)
          \/ MemEntry(p)
          \/ MemDecide(p)
          \/ Deny(p)
          \/ Forward(p)
          \/ ForwardErr(p)

NextRedis ==
    \/ Tick
    \/ \E p \in Procs :
          \/ Arrive(p)
          \/ RedisAcquire(p)
          \/ RedisIncrOk(p)
          \/ RedisIncrFail(p)
          \/ RedisExpireOk(p)
          \/ RedisExpireFail(p)
          \/ RedisTtlOk(p)
          \/ RedisTtlFail(p)
          \/ RedisDrop(p)
          \/ Deny(p)
          \/ Forward(p)
          \/ ForwardErr(p)

\* The service over the in-memory backend (RateLimitLayer::in_memory)
SpecMem == InitMem /\ [][NextMem]_vars

\* call, up to the backend check, for one client on a path of the pairs group
\* and on /pairs, a path of the default group
ArriveGroup(p) ==
    /\ req[p].pc = "idle"
    /\ served < MaxReqs
    /\ \E path \in {"/api/v1/pairs", "/pairs"} :
          req' = [req EXCEPT ![p] = [IdleReq EXCEPT
                    !.pc = "wait", !.path = path,
                    !.hdr = [xff |-> <<"10.0.0.1", "10.9.9.9">>, xreal |-> None]]]
    /\ served' = served + 1
    /\ out' = NoOut
    /\ UNCHANGED <<api, indexer, backend, endpoint_config, now, windows, redis, mutex, hist>>

NextGroups ==
    \/ Tick
    \/ \E p \in Procs :
          \/ ArriveGroup(p)
          \/ MemAcquire(p)
          \/ MemEntry(p)
          \/ MemDecide(p)
          \/ Deny(p)
          \/ Forward(p)
          \/ ForwardErr(p)

\* The service over the in-memory backend, sent paths of two endpoint groups
SpecGroups == InitMem /\ [][NextGroups]_vars

\* One check of the key of the first client on /api/v1/pairs by InMemoryStore::check
\* and by redis_check with every command answered, each on its own store and both
\* at the same time: the two decisions side by side
CheckBoth ==
    LET k == KeyOf("/api/v1/pairs", [xff |-> <<"10.0.0.1", "10.9.9.9">>, xreal |-> None])
        c == ConfigOf(for_path("/api/v1/pairs"))
        e == EntryAfterReset(windows[k], now, c.window)
        r == RedisAfterIncr(k)
        r2 == IF r.count = 1 THEN [r EXCEPT !.exp = now + c.window] ELSE r
        ttl == IF r2.exp = -1 THEN as_secs(c.window)
               ELSE (((r2.exp - now) * 1000) \div TicksPerSec + 500) \div 1000
    IN  /\ served < MaxReqs
        /\ served' = served + 1
        /\ windows' = [windows EXCEPT ![k] = [e EXCEPT !.count = MemCount(e.count, c.max_requests)]]
        /\ redis' = [redis EXCEPT ![k] = r2]
        /\ call' = [fn |-> "check", arg |-> <<k, now>>,
                    ret |-> [mem |-> MemInfo(e.count, c.max_requests,
                                             MemResetUnix(now, e.start, c.window)),
                             redis |-> RedisInfo(r.count, c.max_requests, ttl)]]
        /\ UNCHANGED <<indexer, backend, endpoint_config, now, mutex, req, out, hist,
                       cache, lp, clock>>

\* InMemoryStore::check called on one key with any config, limit 0 and window 0
\* included: the decision, the two differences check computes in unsigned
\* arithmetic (max_requests - entry.0 after the increment, config.window -
\* now.duration_since(entry.1)), and (history) max_requests of the last allowed check
StoreCheck ==
    LET k == KeyOf("/api/v1/pairs", [xff |-> <<"10.0.0.1", "10.9.9.9">>, xreal |-> None])
    IN  /\ served < MaxReqs
        /\ served' = served + 1
        /\ \E max_requests \in 0..MaxLimit, window \in 0..(WindowSecs * TicksPerSec) :
              LET e == EntryAfterReset(windows[k], now, window)
                  info == MemInfo(e.count, max_requests, MemResetUnix(now, e.start, window))
                  count == MemCount(e.count, max_requests)
              IN  /\ windows' = [windows EXCEPT ![k] = [e EXCEPT !.count = count]]
                  /\ call' = [fn |-> "store_check",
                              arg |-> [max_requests |-> max_requests, window |-> window],
                              ret |-> [info |-> info,
                                       left |-> IF info.denied THEN 0 ELSE max_requests - count,
                                       rest |-> window - (now - e.start),
                                       allowed_max |->
                                           IF ~info.denied THEN max_requests
                                           ELSE IF call.fn = "store_check"
                                                THEN call.ret.allowed_max ELSE 0]]
        /\ UNCHANGED <<indexer, backend, endpoint_config, now, redis, mutex, req, out, hist,
                       cache, lp, clock>>

NextStore ==
    \/ Tick
    \/ StoreCheck

\* InMemoryStore alone, checked with any config at any time
SpecStore == InitMem /\ [][NextStore]_vars

NextEquiv ==
    \/ Tick
    \/ CheckBoth

\* The two backends given the same checks of one key at the same times
SpecEquiv == InitMem /\ [][NextEquiv]_vars

\* The service over the Redis backend (RateLimitLayer::with_redis)
SpecRedis == InitRedis /\ [][NextRedis]_vars

\* ------------------------------------------------------------------ upsert statements

\* offer.id as i64: the same bits read as a signed number
as_i64(n) == IF n >= 2 ^ (IdBits - 1) THEN n - 2 ^ IdBits ELSE n

\* upsert_offer, the INSERT: the row bound from the offer, created_at = updated_at = NOW();
\* selling and buying are the three selling_asset_* and buying_asset_* columns the
\* statement names, and the columns selling_asset_id and buying_asset_id, which it
\* does not name, are left NULL
OfferRow(o, t) ==
    [offer_id |-> as_i64(o.id), seller_id |-> o.seller,
     selling |-> asset_key(o.selling), buying |-> asset_key(o.buying),
     selling_asset_id |-> {}, buying_asset_id |-> {},
     amount |-> o.amount, price_n |-> o.price_n, price_d |-> o.price_d,
     price |-> o.price, last_modified_ledger |-> o.last_modified_ledger,
     last_modified_time |-> o.last_modified_time,
     created_at |-> t, updated_at |-> t]

\* Mutant: the conflict branch also rewrites created_at
OfferRowOnConflict_TouchesCreatedAt(row, o, t) ==
    [OfferRow(o, t) EXCEPT !.selling = row.selling, !.buying = row.buying]

\* Mutant: the conflict branch replaces the whole row, asset columns included
OfferRowOnConflict_ReplacesRow(row, o, t) ==
    [OfferRow(o, t) EXCEPT !.created_at = row.created_at]

\* upsert_offer, ON CONFLICT (offer_id) DO UPDATE SET: the columns taken from
\* EXCLUDED, updated_at = NOW(); every other column of the row stays
OfferRowOnConflict(row, o, t) ==
    [row EXCEPT !.seller_id = OfferRow(o, t).seller_id,
                !.amount = OfferRow(o, t).amount,
                !.price_n = OfferRow(o, t).price_n,
                !.price_d = OfferRow(o, t).price_d,
                !.price = OfferRow(o, t).price,
                !.last_modified_ledger = OfferRow(o, t).last_modified_ledger,
                !.last_modified_time = OfferRow(o, t).last_modified_time,
                !.updated_at = t]

\* Mutant: a plain INSERT, no conflict target
UpsertOfferRows_NoConflictTarget(table, o, t) ==
    table \cup {OfferRow(o, t)}

\* Mutant: the statement rewrites the table to the one row
UpsertOfferRows_Truncates(table, o, t) ==
    {OfferRow(o, t)}

\* upsert_offer, the whole statement on the table, executed at database time t
UpsertOfferRows(table, o, t) ==
    IF \E r \in table : r.offer_id = OfferRow(o, t).offer_id
    THEN { IF r.offer_id = OfferRow(o, t).offer_id THEN OfferRowOnConflict(r, o, t) ELSE r :
             r \in table }
    ELSE table \cup {OfferRow(o, t)}

\* upsert_asset, the INSERT into a table of n rows; id is the next value of the
\* table's sequence
AssetRow(a, t, n) ==
    [id |-> n + 1, asset_type |-> asset_key(a)[1], asset_code |-> asset_key(a)[2],
     asset_issuer |-> asset_key(a)[3], created_at |-> t, updated_at |-> t]

\* The conflict target of upsert_asset: the unique key on the triple, on which an
\* absent code or issuer equals an absent one
AssetConflict(r, a) ==
    /\ r.asset_type = asset_key(a)[1]
    /\ r.asset_code = asset_key(a)[2]
    /\ r.asset_issuer = asset_key(a)[3]

\* Mutant of UpsertAssetRows: a plain INSERT, without the ON CONFLICT clause
UpsertAssetRows_NoConflictClause(table, a, t) ==
    table \cup {AssetRow(a, t, Cardinality(table))}

\* upsert_asset, the whole statement: ON CONFLICT DO UPDATE SET updated_at = NOW()
UpsertAssetRows(table, a, t) ==
    IF \E r \in table : AssetConflict(r, a)
    THEN { IF AssetConflict(r, a) THEN [r EXCEPT !.updated_at = t] ELSE r : r \in table }
    ELSE table \cup {AssetRow(a, t, Cardinality(table))}

\* ------------------------------------------------------------------ GET /api/v1/pairs

\* AssetInfo::native
AssetInfo_native == [asset_type |-> "native", asset_code |-> None, asset_issuer |-> None]

\* The number of characters of the asset codes of the model
CodeLen(code) ==
    CASE code = "" -> 0
      [] code = "USDC" -> 4
      [] code = "EURT" -> 4
      [] code = "LONGCODE" -> 8

\* AssetInfo::credit
AssetInfo_credit(code, issuer) ==
    [asset_type |-> IF CodeLen(code) <= 4 THEN "credit_alphanum4" ELSE "credit_alphanum12",
     asset_code |-> code, asset_issuer |-> issuer]

\* AssetInfo::display_name
display_name(info) == IF info.asset_code # None THEN info.asset_code ELSE "XLM"

\* Mutant of to_canonical: the issuer is left out
to_canonical_DropsIssuer(info) ==
    IF info.asset_code = None THEN "native" ELSE info.asset_code

\* AssetInfo::to_canonical
to_canonical(info) ==
    IF info.asset_code = None THEN "native"
    ELSE IF info.asset_issuer # None THEN info.asset_code \o ":" \o info.asset_issuer
    ELSE info.asset_code

\* Option::unwrap_or_default of a column that may be NULL
unwrap_or_default(v) == IF v = None THEN "" ELSE v

\* list_pairs: the rows of sdex_offers joined to assets, once on selling_asset_id
\* and once on buying_asset_id; an id is a set, empty for NULL, and NULL joins no row
PairsJoin(offers, assetsTable) ==
    { j \in offers \X assetsTable \X assetsTable :
        /\ j[2].id \in j[1].selling_asset_id
        /\ j[3].id \in j[1].buying_asset_id }

\* The six columns the query groups by
PairsGroup(j) ==
    <<j[2].asset_type, j[2].asset_code, j[2].asset_issuer,
      j[3].asset_type, j[3].asset_code, j[3].asset_issuer>>

\* max(o.updated_at) over a non-empty set of joined rows
MaxUpdated(js) ==
    CHOOSE t \in { j[1].updated_at : j \in js } : \A j \in js : j[1].updated_at <= t

\* list_pairs: the rows of the query, one for each group (at most 100; the tables
\* of the model stay below that), as a set
PairsRows(offers, assetsTable) ==
    LET joined == PairsJoin(offers, assetsTable)
    IN  { [selling_type |-> g[1], selling_code |-> g[2], selling_issuer |-> g[3],
           buying_type |-> g[4], buying_code |-> g[5], buying_issuer |-> g[6],
           offer_count |-> Cardinality({ j \in joined : PairsGroup(j) = g }),
           last_updated |-> MaxUpdated({ j \in joined : PairsGroup(j) = g })] :
          g \in { PairsGroup(j) : j \in joined } }

\* list_pairs: the TradingPair built from a row of the query
TradingPair(row) ==
    LET base_info == IF row.selling_type = "native" THEN AssetInfo_native
                     ELSE AssetInfo_credit(unwrap_or_default(row.selling_code),
                                           row.selling_issuer)
        counter_info == IF row.buying_type = "native" THEN AssetInfo_native
                        ELSE AssetInfo_credit(unwrap_or_default(row.buying_code),
                                              row.buying_issuer)
    IN  [base |-> display_name(base_info), counter |-> display_name(counter_info),
         base_asset |-> to_canonical(base_info),
         counter_asset |-> to_canonical(counter_info),
         offer_count |-> row.offer_count, last_updated |-> row.last_updated]

\* list_pairs: the PairsResponse computed from the database
PairsResponse(offers, assetsTable) ==
    [pairs |-> { TradingPair(row) : row \in PairsRows(offers, assetsTable) },
     total |-> Cardinality(PairsRows(offers, assetsTable))]

\* LIMIT 100 of the query of list_pairs
PairsLimit == 100

\* Mutant of PairsOrder: the query without its ORDER BY clause
PairsOrder_NoOrderBy(rows, limit) ==
    LET n == Cardinality(rows)
    IN  { SubSeq(s, 1, IF n < limit THEN n ELSE limit) :
            s \in { s \in [1..n -> rows] : \A i, j \in 1..n : i # j => s[i] # s[j] } }

\* list_pairs: the rows in the order the query returns them, ORDER BY offer_count
\* DESC LIMIT limit; rows of equal offer_count come in any order, so this is the
\* set of the sequences the database may answer
PairsOrder(rows, limit) ==
    LET n == Cardinality(rows)
        ordered == { s \in [1..n -> rows] :
                       /\ \A i, j \in 1..n : i # j => s[i] # s[j]
                       /\ \A i, j \in 1..n : i < j => s[i].offer_count >= s[j].offer_count }
    IN  { SubSeq(s, 1, IF n < limit THEN n ELSE limit) : s \in ordered }

\* list_pairs: the loop over the rows, which pushes one TradingPair for each row
\* onto the Vec pairs
PairsVec(rows) == [i \in 1..Len(rows) |-> TradingPair(rows[i])]

\* list_pairs: PairsResponse { total: pairs.len(), pairs } over the rows in the
\* order the query returned them
PairsResponseOf(rows) == [pairs |-> PairsVec(rows), total |-> Len(PairsVec(rows))]

\* ------------------------------------------------------------------ Horizon and the database

\* The offers Horizon reports
Feed == {Wire1a, Wire1b, Wire2, WireBad, WireZeroD, WireSame}

\* The pages get_offers answers: an empty one, one with a record that does not
\* convert between two that do, and a later one in which offer 1 has changed and
\* offer 2 no longer appears
Pages == {<<>>, <<Wire1a, WireBad, Wire2>>, <<Wire1b>>}

\* Horizon answers one more fetch or stream item
Answers == budget # 0

Answered == budget' = IF budget < 0 THEN budget ELSE budget - 1

\* Time passes on the database server.
DbTick ==
    /\ dbnow < MaxDbTime
    /\ dbnow' = dbnow + 1
    /\ UNCHANGED <<api, limiter, ix, sdex_offers, assets, budget>>

\* ------------------------------------------------------------------ polling mode

\* IndexerConfig.poll_interval_secs when POLL_INTERVAL_SECS is not set
default_poll_interval_secs == 2

\* The argument of tokio::time::sleep in start_polling, in seconds
PollSleepSecs == 5

\* Mutant of NextAt: the `continue` after a failed conversion is missing
NextAt_IgnoresConversion(page, i) == i

\* Mutant of NextAt: the loop takes the last record that converts first
NextAt_FromTheEnd(page, i) ==
    IF \E j \in i..Len(page) : TryFrom(page[j]).ok
    THEN CHOOSE j \in i..Len(page) :
             TryFrom(page[j]).ok /\ \A k \in j + 1..Len(page) : ~TryFrom(page[k]).ok
    ELSE Len(page) + 1

\* Mutant of NextAt: a record that does not convert ends the loop
NextAt_StopsAtBadRecord(page, i) ==
    IF i > Len(page) THEN i
    ELSE IF TryFrom(page[i]).ok THEN i
    ELSE Len(page) + 1

RECURSIVE NextAt(_, _)
\* index_offers, the head of the for loop: the first record from position i on that
\* converts; a record that does not convert is logged and skipped (continue)
NextAt(page, i) ==
    IF i > Len(page) THEN i
    ELSE IF TryFrom(page[i]).ok THEN i
    ELSE NextAt(page, i + 1)

\* index_offers between two awaits: the loop moves on from position i; it either
\* holds the next converted offer before the upsert of its selling asset, or it is
\* over and start_polling has logged Ok(indexed) and sleeps
PollEnter(st, i) ==
    LET j == NextAt(st.page, i)
    IN  IF j > Len(st.page)
        THEN [st EXCEPT !.pc = "sleep", !.at = j, !.offer = NoOffer, !.result = "Ok"]
        ELSE [st EXCEPT !.pc = "selling", !.at = j, !.offer = TryFrom(st.page[j]).offer,
                        !.failed = {}]

\* index_offers: get_offers answers Ok(page)
FetchOk(w) ==
    /\ ix[w].pc = "fetching"
    /\ Answers
    /\ Answered
    /\ \E page \in Pages :
          ix' = [ix EXCEPT ![w] =
                    PollEnter([@ EXCEPT !.page = page, !.indexed = 0, !.tried = <<>>,
                                        !.slept = 0], 1)]
    /\ UNCHANGED <<api, limiter, sdex_offers, assets, dbnow>>

\* Mutant of FetchErr: the error ends start_polling
FetchErr_Returns(w) ==
    /\ ix[w].pc = "fetching"
    /\ Answers
    /\ Answered
    /\ ix' = [ix EXCEPT ![w].pc = "returned", ![w].result = "Err", ![w].slept = 0]
    /\ UNCHANGED <<api, limiter, sdex_offers, assets, dbnow>>

\* index_offers: get_offers answers Err, which `?` returns; start_polling logs it
\* and goes on to sleep
FetchErr(w) ==
    /\ ix[w].pc = "fetching"
    /\ Answers
    /\ Answered
    /\ ix' = [ix EXCEPT ![w].pc = "sleep", ![w].result = "Err", ![w].slept = 0]
    /\ UNCHANGED <<api, limiter, sdex_offers, assets, dbnow>>

\* Mutant of AfterAsset: a failed upsert of an asset ends the record's pipeline
AfterAsset_AbortsOnFailure(st, step, ok, next) ==
    [st EXCEPT !.pc = IF ok THEN next ELSE "returned",
               !.failed = IF ok THEN @ ELSE @ \cup {step}]

\* The state of a record's pipeline after the upsert of an asset: the failure, if
\* any, is logged and the pipeline goes on with the step `next`
AfterAsset(st, step, ok, next) ==
    [st EXCEPT !.pc = next, !.failed = IF ok THEN @ ELSE @ \cup {step}]

\* index_offers: upsert_asset(&offer.selling) answers Ok
UpsertSellingOk(w) ==
    /\ ix[w].pc = "selling"
    /\ assets' = UpsertAssetRows(assets, ix[w].offer.selling, dbnow)
    /\ ix' = [ix EXCEPT ![w] = AfterAsset(@, "selling", TRUE, "buying")]
    /\ UNCHANGED <<api, limiter, sdex_offers, dbnow, budget>>

\* index_offers: upsert_asset(&offer.selling) answers Err(DatabaseQuery)
UpsertSellingFail(w) ==
    /\ ix[w].pc = "selling"
    /\ ix' = [ix EXCEPT ![w] = AfterAsset(@, "selling", FALSE, "buying")]
    /\ UNCHANGED <<api, limiter, sdex_offers, assets, dbnow, budget>>

\* index_offers: upsert_asset(&offer.buying) answers Ok
UpsertBuyingOk(w) ==
    /\ ix[w].pc = "buying"
    /\ assets' = UpsertAssetRows(assets, ix[w].offer.buying, dbnow)
    /\ ix' = [ix EXCEPT ![w] = AfterAsset(@, "buying", TRUE, "offer")]
    /\ UNCHANGED <<api, limiter, sdex_offers, dbnow, budget>>

\* index_offers: upsert_asset(&offer.buying) answers Err(DatabaseQuery)
UpsertBuyingFail(w) ==
    /\ ix[w].pc = "buying"
    /\ ix' = [ix EXCEPT ![w] = AfterAsset(@, "buying", FALSE, "offer")]
    /\ UNCHANGED <<api, limiter, sdex_offers, assets, dbnow, budget>>

\* index_offers: upsert_offer answers Ok, indexed += 1, and the loop moves on
UpsertOfferOk(w) ==
    /\ ix[w].pc = "offer"
    /\ sdex_offers' = UpsertOfferRows(sdex_offers, ix[w].offer, dbnow)
    /\ ix' = [ix EXCEPT ![w] =
                 PollEnter([@ EXCEPT !.indexed = @ + 1, !.tried = Append(@, ix[w].at)],
                           ix[w].at + 1)]
    /\ UNCHANGED <<api, limiter, assets, dbnow, budget>>

\* index_offers: upsert_offer answers Err(DatabaseQuery), logged; the loop moves on
UpsertOfferFail(w) ==
    /\ ix[w].pc = "offer"
    /\ ix' = [ix EXCEPT ![w] =
                 PollEnter([@ EXCEPT !.tried = Append(@, ix[w].at),
                                     !.failed = @ \cup {"offer"}],
                           ix[w].at + 1)]
    /\ UNCHANGED <<api, limiter, sdex_offers, assets, dbnow, budget>>

\* start_polling: the sleep is over; the loop calls index_offers again, which
\* issues the next get_offers (result keeps the outcome of the cycle before)
Sleep(w) ==
    /\ ix[w].pc = "sleep"
    /\ ix' = [ix EXCEPT ![w] =
                 [@ EXCEPT !.pc = "fetching", !.page = <<>>, !.at = 0, !.indexed = 0,
                           !.tried = <<>>, !.failed = {}, !.slept = PollSleepSecs]]
    /\ UNCHANGED <<api, limiter, sdex_offers, assets, dbnow, budget>>

\* ------------------------------------------------------------------ streaming mode

\* start_streaming: stream_offers answers Ok(stream)
StreamOpenOk(w) ==
    /\ ix[w].pc = "open"
    /\ ix' = [ix EXCEPT ![w].pc = "next", ![w].stream = "open"]
    /\ UNCHANGED <<api, limiter, sdex_offers, assets, dbnow, budget>>

\* start_streaming: stream_offers answers Err, which `?` returns
StreamOpenErr(w) ==
    /\ ix[w].pc = "open"
    /\ ix' = [ix EXCEPT ![w].pc = "returned", ![w].result = "Err"]
    /\ UNCHANGED <<api, limiter, sdex_offers, assets, dbnow, budget>>

\* Mutant of AfterBadItem: the item ends the loop
AfterBadItem_Returns(st, what) ==
    [st EXCEPT !.pc = "returned", !.result = "Err", !.offer = NoOffer, !.failed = {what},
               !.tried = <<>>, !.bad = @ + 1]

\* The state after an item that does not reach the upserts: a warning, and the
\* loop awaits the next item
AfterBadItem(st, what) ==
    [st EXCEPT !.pc = "next", !.offer = NoOffer, !.failed = {what}, !.tried = <<>>,
               !.bad = @ + 1]

\* start_streaming: stream.next() yields Some(Ok(horizon_offer)); the offer is
\* converted at once, and a failure of the conversion is logged
StreamItem(w) ==
    /\ ix[w].pc = "next"
    /\ Answers
    /\ Answered
    /\ \E item \in Feed :
          ix' = [ix EXCEPT ![w] =
                    IF TryFrom(item).ok
                    THEN [@ EXCEPT !.pc = "s_selling", !.page = <<item>>, !.at = 1,
                                   !.offer = TryFrom(item).offer, !.failed = {},
                                   !.tried = <<>>]
                    ELSE AfterBadItem([@ EXCEPT !.page = <<item>>, !.at = 1], "parse")]
    /\ UNCHANGED <<api, limiter, sdex_offers, assets, dbnow>>

\* start_streaming: stream.next() yields Some(Err(e)), logged
StreamItemErr(w) ==
    /\ ix[w].pc = "next"
    /\ Answers
    /\ Answered
    /\ ix' = [ix EXCEPT ![w] = AfterBadItem([@ EXCEPT !.page = <<>>, !.at = 0], "stream")]
    /\ UNCHANGED <<api, limiter, sdex_offers, assets, dbnow>>

\* start_streaming: stream.next() yields None; the loop ends and Ok(()) is returned
StreamEnd(w) ==
    /\ ix[w].pc = "next"
    /\ ix' = [ix EXCEPT ![w].pc = "returned", ![w].result = "Ok", ![w].stream = "ended"]
    /\ UNCHANGED <<api, limiter, sdex_offers, assets, dbnow, budget>>

\* start_streaming: upsert_asset(&offer.selling) answers Ok
StreamUpsertSellingOk(w) ==
    /\ ix[w].pc = "s_selling"
    /\ assets' = UpsertAssetRows(assets, ix[w].offer.selling, dbnow)
    /\ ix' = [ix EXCEPT ![w] = AfterAsset(@, "selling", TRUE, "s_buying")]
    /\ UNCHANGED <<api, limiter, sdex_offers, dbnow, budget>>

\* start_streaming: upsert_asset(&offer.selling) answers Err(DatabaseQuery)
StreamUpsertSellingFail(w) ==
    /\ ix[w].pc = "s_selling"
    /\ ix' = [ix EXCEPT ![w] = AfterAsset(@, "selling", FALSE, "s_buying")]
    /\ UNCHANGED <<api, limiter, sdex_offers, assets, dbnow, budget>>

\* start_streaming: upsert_asset(&offer.buying) answers Ok
StreamUpsertBuyingOk(w) ==
    /\ ix[w].pc = "s_buying"
    /\ assets' = UpsertAssetRows(assets, ix[w].offer.buying, dbnow)
    /\ ix' = [ix EXCEPT ![w] = AfterAsset(@, "buying", TRUE, "s_offer")]
    /\ UNCHANGED <<api, limiter, sdex_offers, dbnow, budget>>

\* start_streaming: upsert_asset(&offer.buying) answers Err(DatabaseQuery)
StreamUpsertBuyingFail(w) ==
    /\ ix[w].pc = "s_buying"
    /\ ix' = [ix EXCEPT ![w] = AfterAsset(@, "buying", FALSE, "s_offer")]
    /\ UNCHANGED <<api, limiter, sdex_offers, assets, dbnow, budget>>

\* start_streaming: upsert_offer answers Ok; the loop awaits the next item
StreamUpsertOfferOk(w) ==
    /\ ix[w].pc = "s_offer"
    /\ sdex_offers' = UpsertOfferRows(sdex_offers, ix[w].offer, dbnow)
    /\ ix' = [ix EXCEPT ![w].pc = "next", ![w].offer = NoOffer, ![w].tried = <<1>>]
    /\ UNCHANGED <<api, limiter, assets, dbnow, budget>>

\* start_streaming: upsert_offer answers Err(DatabaseQuery), logged; the loop awaits
\* the next item
StreamUpsertOfferFail(w) ==
    /\ ix[w].pc = "s_offer"
    /\ ix' = [ix EXCEPT ![w].pc = "next", ![w].offer = NoOffer, ![w].tried = <<1>>,
                        ![w].failed = @ \cup {"offer"}]
    /\ UNCHANGED <<api, limiter, sdex_offers, assets, dbnow, budget>>

\* ------------------------------------------------------------------ specifications, indexer

\* SdexIndexer::with_mode and start_indexing: start_polling calls index_offers,
\* which issues the first get_offers; start_streaming calls stream_offers
StartedWriter(mode) ==
    [IdleWriter EXCEPT !.mode = mode,
                       !.pc = IF mode = "Polling" THEN "fetching" ELSE "open"]

\* The rate limiter at rest, with the full limit for every group
LimiterAtRestOnly ==
    /\ backend = "InMemory"
    /\ endpoint_config = CHOOSE c \in Configs : c.pairs = MaxLimit
    /\ LimiterInit

\* The API process at rest next to the indexers
LimiterAtRest == LimiterAtRestOnly /\ ApiOff

\* The tables are empty and the database clock is at its start
EmptyDatabase ==
    /\ sdex_offers = {}
    /\ assets = {}
    /\ dbnow = 0

\* The steps of a process in start_polling
PollingStep(w) ==
    \/ FetchOk(w)
    \/ FetchErr(w)
    \/ UpsertSellingOk(w)
    \/ UpsertSellingFail(w)
    \/ UpsertBuyingOk(w)
    \/ UpsertBuyingFail(w)
    \/ UpsertOfferOk(w)
    \/ UpsertOfferFail(w)
    \/ Sleep(w)

\* The steps of a process in start_streaming
StreamingStep(w) ==
    \/ StreamOpenOk(w)
    \/ StreamOpenErr(w)
    \/ StreamItem(w)
    \/ StreamItemErr(w)
    \/ StreamEnd(w)
    \/ StreamUpsertSellingOk(w)
    \/ StreamUpsertSellingFail(w)
    \/ StreamUpsertBuyingOk(w)
    \/ StreamUpsertBuyingFail(w)
    \/ StreamUpsertOfferOk(w)
    \/ StreamUpsertOfferFail(w)

\* One indexer process, in either mode, on an empty database
InitIndexer ==
    /\ LimiterAtRest
    /\ \E mode \in {"Polling", "Streaming"} :
          ix = [w \in Writers |-> IF w = "w1" THEN StartedWriter(mode) ELSE IdleWriter]
    /\ EmptyDatabase
    /\ budget = MaxFetches

NextIndexer ==
    \/ DbTick
    \/ \E w \in Writers : PollingStep(w) \/ StreamingStep(w)

\* The indexer against Horizon and the database
SpecIndexer == InitIndexer /\ [][NextIndexer]_vars

\* Two indexer processes streaming into the one database, an item for each
InitWriters ==
    /\ LimiterAtRest
    /\ ix = [w \in Writers |-> StartedWriter("Streaming")]
    /\ EmptyDatabase
    /\ budget = Cardinality(Writers)

NextWriters ==
    \/ DbTick
    \/ \E w \in Writers : StreamingStep(w)

\* Two writers on the same tables
SpecWriters == InitWriters /\ [][NextWriters]_vars

\* One indexer process streaming, every item of the feed possibly more than once
InitReplay ==
    /\ LimiterAtRest
    /\ ix = [w \in Writers |-> IF w = "w1" THEN StartedWriter("Streaming") ELSE IdleWriter]
    /\ EmptyDatabase
    /\ budget = MaxFetches

SpecReplay == InitReplay /\ [][NextWriters]_vars

\* One polling process against a Horizon that answers every fetch, at one time of
\* the database clock
InitPolling ==
    /\ LimiterAtRest
    /\ ix = [w \in Writers |-> IF w = "w1" THEN StartedWriter("Polling") ELSE IdleWriter]
    /\ EmptyDatabase
    /\ budget = -1

NextPolling == \E w \in Writers : PollingStep(w)

\* Polling without end: the runtime keeps scheduling the process, the timer fires,
\* and Horizon and the database answer every request (in time or by timeout)
SpecPolling ==
    /\ InitPolling
    /\ [][NextPolling]_vars
    /\ \A w \in Writers : WF_vars(PollingStep(w))

\* ------------------------------------------------------------------ helpers of the API

\* Header values: addresses of both families, with and without blanks around
\* them, and values that are no address
Tokens ==
    {"10.0.0.1", " 10.0.0.1", " 10.0.0.2 ", "203.0.113.5", "2001:DB8::1", "not-an-ip",
     "10.9.9.9.9", " ", ""}

\* The header sets of a request: X-Forwarded-For absent or of one or two tokens,
\* X-Real-IP absent or one value
HeaderSets ==
    { [xff |-> f, xreal |-> r] :
        f \in {<<>>} \cup { <<a>> : a \in Tokens } \cup { <<a, b>> : a \in Tokens, b \in {"10.0.0.2"} },
        r \in {None} \cup Tokens }

\* EndpointConfig::default with no RATE_LIMIT_* variable set: max_requests of the
\* four groups and the window in seconds
EndpointConfig_default ==
    [pairs |-> 60, orderbook |-> 30, quote |-> 100, default |-> 200, window |-> 60]

\* The paths of the requests: the three API routes with and without more after
\* the prefix, and paths of the default group
AllPaths ==
    {"/api/v1/pairs", "/api/v1/pairsx", "/api/v1/orderbook", "/api/v1/orderbook/X/Y",
     "/api/v1/quote", "/api/v1/quote/X", "/health", "/pairs", "/api/v1", "/api/v2/pairs",
     "//a/b/", "/"}

\* RateLimitService::call up to the check: the configuration, the slug and the key
\* of a request
CallRoute ==
    /\ \E path \in AllPaths : \E h \in HeaderSets :
          /\ h.xreal \in {None, "203.0.113.5"}
          /\ call' = [fn |-> "route", arg |-> <<path, h>>,
                      ret |-> [max_requests |-> EndpointConfig_default[for_path(path)],
                               window |-> EndpointConfig_default.window,
                               slug |-> path_to_slug(path),
                               ip |-> extract_ip(h),
                               key |-> KeyOf(path, h)]]
    /\ UNCHANGED <<limiter, indexer, clock, cache, lp>>

\* extract_ip is called on a request
CallExtractIp ==
    /\ \E h \in HeaderSets : call' = [fn |-> "extract_ip", arg |-> h, ret |-> extract_ip(h)]
    /\ UNCHANGED <<limiter, indexer, clock, cache, lp>>

\* The texts an ApiError carries: of the caller, or of the sqlx or anyhow error
Messages == {"unknown asset: FOO", "connection refused: postgres://api:hunter2@db/stellar"}

\* The values of ApiError
ApiErrors ==
    { [variant |-> v, msg |-> m] :
        v \in {"BadRequest", "NotFound", "Validation", "Unauthorized", "InvalidAsset",
                "Database", "Internal"},
        m \in Messages }
    \cup { [variant |-> v, msg |-> None] : v \in {"RateLimitExceeded", "NoRouteFound"} }

\* Mutant of into_response: Database and Internal answer the text of the error
into_response_LeaksMessage(e) ==
    CASE e.variant = "BadRequest" -> [status |-> 400, error |-> "bad_request", message |-> e.msg]
      [] e.variant = "NotFound" -> [status |-> 404, error |-> "not_found", message |-> e.msg]
      [] e.variant = "Validation" -> [status |-> 400, error |-> "validation_error", message |-> e.msg]
      [] e.variant = "RateLimitExceeded" ->
            [status |-> 429, error |-> "rate_limit_exceeded",
             message |-> "Too many requests. Please try again later."]
      [] e.variant = "Unauthorized" -> [status |-> 401, error |-> "unauthorized", message |-> e.msg]
      [] e.variant = "InvalidAsset" -> [status |-> 400, error |-> "invalid_asset", message |-> e.msg]
      [] e.variant = "NoRouteFound" ->
            [status |-> 404, error |-> "no_route",
             message |-> "No trading route found for this pair"]
      [] e.variant \in {"Database", "Internal"} ->
            [status |-> 500, error |-> "internal_error", message |-> e.msg]

\* ApiError::into_response: the status and the ErrorResponse of the body
into_response(e) ==
    CASE e.variant = "BadRequest" -> [status |-> 400, error |-> "bad_request", message |-> e.msg]
      [] e.variant = "NotFound" -> [status |-> 404, error |-> "not_found", message |-> e.msg]
      [] e.variant = "Validation" -> [status |-> 400, error |-> "validation_error", message |-> e.msg]
      [] e.variant = "RateLimitExceeded" ->
            [status |-> 429, error |-> "rate_limit_exceeded",
             message |-> "Too many requests. Please try again later."]
      [] e.variant = "Unauthorized" -> [status |-> 401, error |-> "unauthorized", message |-> e.msg]
      [] e.variant = "InvalidAsset" -> [status |-> 400, error |-> "invalid_asset", message |-> e.msg]
      [] e.variant = "NoRouteFound" ->
            [status |-> 404, error |-> "no_route",
             message |-> "No trading route found for this pair"]
      [] e.variant \in {"Database", "Internal"} ->
            [status |-> 500, error |-> "internal_error",
             message |-> "An internal error occurred"]

\* into_response is called on an error a handler returned
CallIntoResponse ==
    /\ \E e \in ApiErrors : call' = [fn |-> "into_response", arg |-> e, ret |-> into_response(e)]
    /\ UNCHANGED <<limiter, indexer, clock, cache, lp>>

\* The values of AssetInfo: native, credit with and without issuer (the code of
\* a NULL column is the empty string), and one deserialized with an issuer and no code
AssetInfos ==
    {AssetInfo_native}
    \cup { AssetInfo_credit(c, i) : c \in {"USDC", "LONGCODE", ""}, i \in {None, "GISSUER", "GOTHER"} }
    \cup {[asset_type |-> "native", asset_code |-> None, asset_issuer |-> "GISSUER"]}

\* to_canonical and display_name are called on an AssetInfo
CallCanonical ==
    /\ \E info \in AssetInfos :
          call' = [fn |-> "canonical", arg |-> info,
                   ret |-> [canonical |-> to_canonical(info), display |-> display_name(info)]]
    /\ UNCHANGED <<limiter, indexer, clock, cache, lp>>

\* The values of Asset: native, and both credit variants over two codes and two
\* issuers, so that two assets differ in the variant, the code or the issuer alone
Assets ==
    {Native}
    \cup { CreditAlphanum4(c, i) : c \in {"USDC", "EURT"}, i \in {"GISSUER", "GOTHER"} }
    \cup { CreditAlphanum12(c, i) : c \in {"USDC", "LONGCODE"}, i \in {"GISSUER", "GOTHER"} }

\* key is called on two assets, which are also compared by the derived PartialEq
CallKey ==
    /\ \E a, b \in Assets :
          call' = [fn |-> "key", arg |-> <<a, b>>,
                   ret |-> [ka |-> asset_key(a), kb |-> asset_key(b), eq |-> (a = b)]]
    /\ UNCHANGED <<limiter, indexer, clock, cache, lp>>

\* An assets table of three assets
PoolAssets ==
    {AssetRow(Native, 0, 0), AssetRow(CreditAlphanum4("USDC", "GISSUER"), 0, 1),
     AssetRow(CreditAlphanum4("EURT", "GISSUER"), 0, 2)}

\* A row of sdex_offers as the query of list_pairs reads it: its id columns (a
\* set, empty for NULL) and updated_at
PoolOffer(id, s, b, t) ==
    [OfferRow(TryFrom(Wire1a).offer, t) EXCEPT
        !.offer_id = id, !.selling_asset_id = s, !.buying_asset_id = b]

\* Offers of three groups, one of them with two offers, and one offer whose id
\* columns are NULL
PoolOffers ==
    {PoolOffer(1, {1}, {2}, 0), PoolOffer(2, {1}, {2}, 1), PoolOffer(3, {2}, {1}, 0),
     PoolOffer(4, {1}, {3}, 0), PoolOffer(5, {}, {}, 0)}

\* The limits the query is run with: the one of list_pairs and two that cut
\* the tables of the model
Limits == {1, 2, PairsLimit}

\* The query and the loop of list_pairs run over a table of offers
CallPairsQuery ==
    /\ \E offers \in SUBSET PoolOffers, limit \in Limits :
          \E rows \in PairsOrder(PairsRows(offers, PoolAssets), limit) :
             call' = [fn |-> "pairs", arg |-> [offers |-> offers, limit |-> limit],
                      ret |-> [rows |-> rows, response |-> PairsResponseOf(rows)]]
    /\ UNCHANGED <<limiter, indexer, clock, cache, lp>>

\* The wire ids of one decimal digit
WireIds == {<<"0">>, <<"1">>, <<"2">>, <<"3">>, <<"4">>, <<"5">>, <<"6">>, <<"7">>, <<"8">>, <<"9">>}

\* Two wire offers that differ in their id at most are converted and written
\* by upsert_offer to an empty sdex_offers, one after the other
CallUpsertOffer ==
    /\ \E a, b \in WireIds :
          LET oa == TryFrom([Wire1a EXCEPT !.id = a])
              ob == TryFrom([Wire1a EXCEPT !.id = b])
          IN  /\ oa.ok
              /\ ob.ok
              /\ call' = [fn |-> "upsert_offer", arg |-> <<oa.offer, ob.offer>>,
                          ret |-> UpsertOfferRows(UpsertOfferRows({}, oa.offer, 0),
                                                  ob.offer, 0)]
    /\ UNCHANGED <<limiter, indexer, clock, cache, lp>>

\* The helpers called on every input, in any order
InitCalls == LimiterAtRest /\ IndexerOff

NextCalls ==
    \/ CallExtractIp
    \/ CallRoute
    \/ CallIntoResponse
    \/ CallCanonical
    \/ CallKey
    \/ CallPairsQuery
    \/ CallUpsertOffer

SpecCalls == InitCalls /\ [][NextCalls]_vars

\* ------------------------------------------------------------------ list_pairs

\* Result<Json<PairsResponse>>: Ok(Json(body)) or Err(error)
PairsOk(body) == [ok |-> TRUE, body |-> {body}, error |-> None]

PairsErr(error) == [ok |-> FALSE, body |-> {}, error |-> error]

\* The string under pairs:list: the JSON of a response, or (valid FALSE) a
\* string that does not deserialize to a PairsResponse; exp is the time Redis
\* drops it, and at (history) the time the response was computed
Stored(response, valid, exp, at) ==
    [valid |-> valid, response |-> response, exp |-> exp, at |-> at]

\* The write of a response that Redis accepted, as the history keeps it
Wrote(op, v, decodes, exp) == [op |-> op, v |-> v, decodes |-> decodes, exp |-> exp]

\* The one element of a set that holds one
The(S) == CHOOSE x \in S : TRUE

\* A database with one offer, selling native for USDC, whose rows name their
\* assets by id as the query of list_pairs reads them
SeedAssets ==
    {AssetRow(Native, 0, 0), AssetRow(CreditAlphanum4("USDC", "GISSUER"), 0, 1)}

SeedOffers ==
    {[OfferRow(TryFrom(Wire1a).offer, 0) EXCEPT !.selling_asset_id = {1}, !.buying_asset_id = {2}]}

\* Duration::from_secs(10), the TTL list_pairs gives its response
PairsTtlSecs == 10

\* Mutant of CacheGetValue: a string past its expiry is still answered
CacheGetValue_ServesExpired(val, t) ==
    { v.response : v \in { x \in val : x.valid } }

\* CacheManager::get with Redis answering: Some(value) of the string under the
\* key when Redis still holds it at time t and it deserializes, else None; an
\* Option is a set of at most one value
CacheGetValue(val, t) ==
    { v.response : v \in { x \in val : x.valid /\ t < x.exp } }

\* The responses and the TTLs, in seconds (Duration::as_secs), the cache is called with
CacheValues == {PairsResponse({}, {}), PairsResponse(SeedOffers, SeedAssets)}

Ttls == {0, 1, 2}

\* CacheManager::get: the GET fails (a miss for get), or Redis answers
CacheGet ==
    /\ \E redis_ok \in BOOLEAN :
          call' = [fn |-> "get", arg |-> clock,
                   ret |-> [value |-> IF redis_ok THEN CacheGetValue(cache.val, clock) ELSE {},
                            redis_ok |-> redis_ok]]
    /\ UNCHANGED <<limiter, indexer, clock, cache, lp>>

\* CacheManager::set answers Ok: SETEX stored the JSON for ttl seconds
CacheSetOk ==
    /\ \E v \in CacheValues, ttl \in Ttls :
          /\ ttl >= 1
          /\ cache' = [cache EXCEPT !.val = {Stored(v, TRUE, clock + ttl, clock)},
                                    !.last = Wrote("set", {v}, TRUE, clock + ttl)]
          /\ call' = [fn |-> "set", arg |-> <<v, ttl>>, ret |-> "Ok"]
    /\ UNCHANGED <<limiter, indexer, clock, lp>>

\* CacheManager::set of a value of another type answers Ok: the string under the
\* key is no PairsResponse
CacheSetOther ==
    /\ \E ttl \in Ttls :
          /\ ttl >= 1
          /\ cache' = [cache EXCEPT !.val = {Stored(PairsResponse({}, {}), FALSE, clock + ttl, clock)},
                                    !.last = Wrote("set", {}, FALSE, clock + ttl)]
          /\ call' = [fn |-> "set", arg |-> <<None, ttl>>, ret |-> "Ok"]
    /\ UNCHANGED <<limiter, indexer, clock, lp>>

\* CacheManager::set answers Err: SETEX failed (Redis refuses a TTL of 0 seconds)
CacheSetErr ==
    /\ \E v \in CacheValues, ttl \in Ttls :
          call' = [fn |-> "set", arg |-> <<v, ttl>>, ret |-> "Err"]
    /\ UNCHANGED <<limiter, indexer, clock, cache, lp>>

\* CacheManager::delete answers Ok: DEL removed the key
CacheDeleteOk ==
    /\ cache' = [cache EXCEPT !.val = {}, !.last = Wrote("delete", {}, FALSE, 0)]
    /\ call' = [fn |-> "delete", arg |-> None, ret |-> "Ok"]
    /\ UNCHANGED <<limiter, indexer, clock, lp>>

\* CacheManager::delete answers Err: DEL failed
CacheDeleteErr ==
    /\ call' = [fn |-> "delete", arg |-> None, ret |-> "Err"]
    /\ UNCHANGED <<limiter, indexer, clock, cache, lp>>

\* A second passes
ClockTick ==
    /\ clock < MaxClock
    /\ clock' = clock + 1
    /\ UNCHANGED <<limiter, indexer, call, cache, lp>>

\* list_pairs begins: without a cache, or with its Mutex held by another request
\* (try_lock fails), it goes on to the query; else it holds the Mutex for the get
PairsStart(p) ==
    /\ lp[p].pc = "idle"
    /\ IF ~cache.present
       THEN /\ lp' = [lp EXCEPT ![p].pc = "query", ![p].seen = @ \cup {"absent"}]
            /\ UNCHANGED cache
       ELSE IF cache.lock # None
       THEN /\ lp' = [lp EXCEPT ![p].pc = "query", ![p].seen = @ \cup {"locked"}]
            /\ UNCHANGED cache
       ELSE /\ lp' = [lp EXCEPT ![p].pc = "get"]
            /\ cache' = [cache EXCEPT !.lock = p]
    /\ UNCHANGED <<limiter, indexer, clock, call>>

\* CacheManager::get answers Some(cached): list_pairs returns it
PairsGetHit(p) ==
    /\ lp[p].pc = "get"
    /\ \E v \in cache.val :
          /\ v.response \in CacheGetValue({v}, clock)
          /\ lp' = [lp EXCEPT ![p].pc = "done", ![p].result = PairsOk(v.response),
                              ![p].at = v.at]
    /\ cache' = [cache EXCEPT !.lock = None]
    /\ UNCHANGED <<limiter, indexer, clock, call>>

\* CacheManager::get answers None because the Redis GET failed or found no string
PairsGetMiss(p) ==
    /\ lp[p].pc = "get"
    /\ lp' = [lp EXCEPT ![p].pc = "query", ![p].seen = @ \cup {"miss"}]
    /\ cache' = [cache EXCEPT !.lock = None]
    /\ UNCHANGED <<limiter, indexer, clock, call>>

\* CacheManager::get answers None because the value does not deserialize
PairsGetUndecodable(p) ==
    /\ lp[p].pc = "get"
    /\ \E v \in cache.val : ~v.valid /\ clock < v.exp
    /\ lp' = [lp EXCEPT ![p].pc = "query", ![p].seen = @ \cup {"decode"}]
    /\ cache' = [cache EXCEPT !.lock = None]
    /\ UNCHANGED <<limiter, indexer, clock, call>>

\* The query answers its rows; the response is built from them
PairsQueryOk(p) ==
    /\ lp[p].pc = "query"
    /\ lp' = [lp EXCEPT ![p].pc = "store", ![p].at = clock,
                        ![p].response = {PairsResponse(sdex_offers, assets)}]
    /\ UNCHANGED <<limiter, indexer, clock, call, cache>>

\* The query fails: map_err(ApiError::Database) and `?`
PairsQueryErr(p) ==
    /\ lp[p].pc = "query"
    /\ lp' = [lp EXCEPT ![p].pc = "done", ![p].result = PairsErr("Database")]
    /\ UNCHANGED <<limiter, indexer, clock, call, cache>>

\* After the query: without a cache, or with its Mutex held, the response is
\* returned; else the Mutex is held for the set
PairsStore(p) ==
    /\ lp[p].pc = "store"
    /\ IF ~cache.present
       THEN /\ lp' = [lp EXCEPT ![p].pc = "done", ![p].result = PairsOk(The(lp[p].response))]
            /\ UNCHANGED cache
       ELSE IF cache.lock # None
       THEN /\ lp' = [lp EXCEPT ![p].pc = "done", ![p].result = PairsOk(The(lp[p].response)),
                                ![p].seen = @ \cup {"locked"}]
            /\ UNCHANGED cache
       ELSE /\ lp' = [lp EXCEPT ![p].pc = "set"]
            /\ cache' = [cache EXCEPT !.lock = p]
    /\ UNCHANGED <<limiter, indexer, clock, call>>

\* Mutant of PairsSetOk: the response is stored without a time to live
PairsSetOk_WithoutTtl(p) ==
    /\ lp[p].pc = "set"
    /\ lp' = [lp EXCEPT ![p].pc = "done", ![p].result = PairsOk(The(lp[p].response))]
    /\ cache' = [cache EXCEPT
                    !.lock = None,
                    !.val = {Stored(The(lp[p].response), TRUE, clock + 1000, lp[p].at)},
                    !.last = Wrote("set", lp[p].response, TRUE, clock + 1000)]
    /\ UNCHANGED <<limiter, indexer, clock, call>>

\* CacheManager::set answers Ok: the response is under pairs:list for 10 s
PairsSetOk(p) ==
    /\ lp[p].pc = "set"
    /\ lp' = [lp EXCEPT ![p].pc = "done", ![p].result = PairsOk(The(lp[p].response))]
    /\ cache' = [cache EXCEPT
                    !.lock = None,
                    !.val = {Stored(The(lp[p].response), TRUE, clock + PairsTtlSecs, lp[p].at)},
                    !.last = Wrote("set", lp[p].response, TRUE, clock + PairsTtlSecs)]
    /\ UNCHANGED <<limiter, indexer, clock, call>>

\* Mutant of PairsSetErr: the error of set is returned with `?`
PairsSetErr_Propagates(p) ==
    /\ lp[p].pc = "set"
    /\ lp' = [lp EXCEPT ![p].pc = "done", ![p].result = PairsErr("Internal"),
                        ![p].seen = @ \cup {"set_failed"}]
    /\ cache' = [cache EXCEPT !.lock = None]
    /\ UNCHANGED <<limiter, indexer, clock, call>>

\* CacheManager::set answers Err, which `let _ =` drops
PairsSetErr(p) ==
    /\ lp[p].pc = "set"
    /\ lp' = [lp EXCEPT ![p].pc = "done", ![p].result = PairsOk(The(lp[p].response)),
                        ![p].seen = @ \cup {"set_failed"}]
    /\ cache' = [cache EXCEPT !.lock = None]
    /\ UNCHANGED <<limiter, indexer, clock, call>>

\* Redis drops the string under pairs:list, whose time to live has passed
CacheExpire ==
    /\ cache.present
    /\ \E v \in cache.val : v.exp <= clock
    /\ cache' = [cache EXCEPT !.val = {}]
    /\ UNCHANGED <<limiter, indexer, clock, call, lp>>

\* The steps of a request in list_pairs
PairsStep(p) ==
    \/ PairsStart(p)
    \/ PairsGetHit(p)
    \/ PairsGetMiss(p)
    \/ PairsGetUndecodable(p)
    \/ PairsQueryOk(p)
    \/ PairsQueryErr(p)
    \/ PairsStore(p)
    \/ PairsSetOk(p)
    \/ PairsSetErr(p)

\* Server::new: AppState without a cache (no redis_url, or the connection failed)
\* or with one; the value under pairs:list is absent, no PairsResponse, or the
\* response computed and stored at time 0
InitPairs ==
    /\ LimiterAtRestOnly
    /\ ix = [w \in Writers |-> IdleWriter]
    /\ budget = 0
    /\ dbnow = 0
    /\ \/ sdex_offers = {} /\ assets = {}
       \/ sdex_offers = SeedOffers /\ assets = SeedAssets
    /\ call = NoCall
    /\ lp = [p \in Procs |-> IdlePairs]
    /\ clock = 0
    /\ \/ cache = NoCache
       \/ \E v \in {{}, {Stored(PairsResponse({}, {}), FALSE, PairsTtlSecs, 0)},
                     {Stored(PairsResponse(sdex_offers, assets), TRUE, PairsTtlSecs, 0)}} :
             cache = [present |-> TRUE, lock |-> None, val |-> v, last |-> NoWrite]

NextPairs ==
    \/ CacheExpire
    \/ ClockTick
    \/ \E p \in Procs : PairsStep(p)

\* CacheManager alone, connected, with nothing under the key
InitCache ==
    /\ LimiterAtRestOnly
    /\ IndexerOff
    /\ call = NoCall
    /\ lp = [p \in Procs |-> IdlePairs]
    /\ clock = 0
    /\ cache = [present |-> TRUE, lock |-> None, val |-> {}, last |-> NoWrite]

NextCache ==
    \/ CacheGet
    \/ CacheSetOk
    \/ CacheSetOther
    \/ CacheSetErr
    \/ CacheDeleteOk
    \/ CacheDeleteErr
    \/ CacheExpire
    \/ ClockTick

SpecCache == InitCache /\ [][NextCache]_vars

SpecPairs == InitPairs /\ [][NextPairs]_vars

\* ------------------------------------------------------------------ server

\* Server::new and build_app: the AppState has a cache when config.redis_url is
\* given and CacheManager::new connects, and none otherwise; in either case the
\* layer in front of the routes is RateLimitLayer::default(), the in-memory one
InitServer ==
    /\ backend = "InMemory"
    /\ LimiterInit
    /\ IndexerOff
    /\ call = NoCall
    /\ lp = [p \in Procs |-> IdlePairs]
    /\ clock = 0
    /\ cache \in {NoCache, [present |-> TRUE, lock |-> None, val |-> {}, last |-> NoWrite]}

\* The server built by Server::new serving requests through its rate limiter
SpecServer == InitServer /\ [][NextMem]_vars

\* ------------------------------------------------------------------ history

Min(a, b) == IF a <= b THEN a ELSE b

Max(a, b) == IF a >= b THEN a ELSE b

\* The config group of the requests that are charged to a key
GroupOfKey ==
    [k \in Keys |-> for_path((CHOOSE q \in Requests : KeyOf(q[1], q[2]) = k)[1])]

\* The limit a key is checked against: max_requests of the group of its path
LimitOfKey(k) == ConfigOf(GroupOfKey[k]).max_requests

\* The window length in ticks
WindowTicks == endpoint_config.window * TicksPerSec

\* The checks of key k that were decided in the same window as its i-th check
SameWindow(k, i) == { j \in 1..Len(hist[k]) : hist[k][j].ws = hist[k][i].ws }

\* The position of the i-th check of key k among the checks of its window
Rank(k, i) == Cardinality({ j \in SameWindow(k, i) : j <= i })

\* Those of the checks S of key k that were allowed
AllowedOf(k, S) == { j \in S : ~hist[k][j].info.denied }

\* ------------------------------------------------------------------ claims, in-memory

\* C1: conservation.  Of the n checks of one key that fall in one window, exactly
\* min(n, L) are allowed, and they are the first min(n, L): a check is denied
\* exactly when more than L checks of its window came before or with it.
C1_Conservation ==
    \A k \in Keys : \A i \in 1..Len(hist[k]) :
        LET S == SameWindow(k, i)
            L == LimitOfKey(k)
        IN  /\ Cardinality(AllowedOf(k, S)) = Min(Cardinality(S), L)
            /\ hist[k][i].info.denied <=> (Rank(k, i) > L)

\* C1 witness: a window of a key with a positive limit that saw more checks than the
\* limit, so that some were allowed and a later one denied
C1_Witness ==
    \E k \in Keys : \E i \in 1..Len(hist[k]) :
        /\ LimitOfKey(k) >= 1
        /\ hist[k][i].info.denied
        /\ Cardinality(SameWindow(k, i)) > LimitOfKey(k)

C7_WindowReset ==
    \A k \in Keys : \A i \in 2..Len(hist[k]) :
        LET e == hist[k][i]
            prev == hist[k][i - 1]
        IN  (e.at - prev.ws >= WindowTicks) =>
                /\ e.ws = e.at
                /\ LimitOfKey(k) >= 1 =>
                        (~e.info.denied /\ e.info.remaining = LimitOfKey(k) - 1)

\* C7 witness: a key whose check was denied and whose next check, a window after the
\* start of that window, was allowed
C7_Witness ==
    \E k \in Keys : \E i \in 2..Len(hist[k]) :
        /\ hist[k][i - 1].info.denied
        /\ hist[k][i].at - hist[k][i - 1].ws >= WindowTicks
        /\ ~hist[k][i].info.denied

\* The allowed checks of key k that read the clock in the interval [t, t + window]
AllowedIn(k, t) ==
    { j \in 1..Len(hist[k]) :
        /\ ~hist[k][j].info.denied
        /\ t <= hist[k][j].at
        /\ hist[k][j].at <= t + WindowTicks }

\* C9: boundary burst.  For every key with limit L, the allowed checks of any time
\* interval of the length of a window number at most 2 * L, and those of one window
\* at most L.
C9_BurstBound ==
    \A k \in Keys :
        /\ \A t \in 0..MaxTime : Cardinality(AllowedIn(k, t)) <= 2 * LimitOfKey(k)
        /\ \A i \in 1..Len(hist[k]) :
              Cardinality(AllowedOf(k, SameWindow(k, i))) <= LimitOfKey(k)

\* C9 witness: an interval of the length of a window with more allowed checks of one
\* key than its limit, the burst across a window boundary
C9_Witness ==
    \E k \in Keys : \E t \in 0..MaxTime :
        /\ LimitOfKey(k) >= 1
        /\ Cardinality(AllowedIn(k, t)) > LimitOfKey(k)

\* The requests inside InMemoryStore::check
InCheck == { p \in Procs : req[p].pc \in {"mem_entry", "mem_decide"} }

\* C10: serialization.  At most one request is inside the store's check at a time,
\* and no increment is lost: the counter of every key equals the number of allowed
\* checks of its current window, which never exceeds the limit.
C10_Serialized ==
    /\ Cardinality(InCheck) <= 1
    /\ \A p \in InCheck : mutex = p
    /\ \A k \in Keys :
          LET S == { j \in 1..Len(hist[k]) :
                       ~hist[k][j].info.denied /\ hist[k][j].ws = windows[k].start }
          IN  /\ windows[k].present => windows[k].count = Cardinality(S)
              /\ Cardinality(S) <= LimitOfKey(k)

\* C10 witness: two requests for one key in flight together, one holding the mutex
\* inside check and the other waiting for it, with the key's quota already used up
C10_Witness ==
    \E p, q \in Procs :
        /\ p # q
        /\ req[p].pc = "mem_decide"
        /\ req[q].pc = "wait"
        /\ key(p) = key(q)
        /\ windows[key(p)].count = LimitOfKey(key(p))
        /\ LimitOfKey(key(p)) >= 1

\* ------------------------------------------------------------------ claims, responses

\* C4: every response that leaves the service carries X-RateLimit-Limit,
\* X-RateLimit-Remaining and X-RateLimit-Reset, set to the limit, remaining and reset
\* of the decision taken for its request; a denied one carries Retry-After as well.
C4_Step ==
    out'.kind = "response" =>
        LET d == req[out'.by].info
            h == out'.resp.headers
        IN  /\ req[out'.by].pc = "decided"
            /\ h["x-ratelimit-limit"] = to_string(d.limit)
            /\ h["x-ratelimit-remaining"] = to_string(d.remaining)
            /\ h["x-ratelimit-reset"] = to_string(d.reset)
            /\ d.denied => h["retry-after"] # None

C4_Headers == [][C4_Step]_vars

\* C4 witness: the response of an inner service that had set a rate-limit header of
\* its own leaves with the decision's limit in its place
C4_Witness ==
    /\ out.kind = "response"
    /\ out.resp.status = 500
    /\ out.resp.headers["x-ratelimit-limit"] \notin {None, "999"}
    /\ out.resp.headers["x-ratelimit-remaining"] = "0"

\* C5: limits are independent per client IP.  A step changes the entry of a key only
\* if it is a step of check for a request of that very key (same endpoint, same
\* client IP), and the first check of a key under a positive limit is allowed
\* whatever the other keys have used up.
C5_Step ==
    \A k \in Keys :
        windows'[k] # windows[k] =>
            \E p \in Procs :
                /\ req[p].pc \in {"mem_entry", "mem_decide"}
                /\ req'[p] # req[p]
                /\ KeyOf(req[p].path, req[p].hdr) = k

C5_FirstAllowed ==
    \A k \in Keys :
        (hist[k] # <<>> /\ LimitOfKey(k) >= 1) => ~hist[k][1].info.denied

C5_Independent == [][C5_Step]_vars /\ []C5_FirstAllowed

\* C5 witness: one client was denied, and the first request of the other client,
\* checked later, was allowed
C5_Witness ==
    \E a, b \in Keys : \E i \in 1..Len(hist[a]) :
        /\ a # b
        /\ hist[a][i].info.denied
        /\ Len(hist[b]) = 1
        /\ hist[b][1].at > hist[a][i].at
        /\ hist[b][1].ws < hist[a][i].ws + WindowTicks
        /\ ~hist[b][1].info.denied

\* C6: a denied request is answered with status 429, Content-Type application/json,
\* a JSON body with error = "rate_limit_exceeded" and a message, and Retry-After =
\* max(0, reset - now).
C6_Step ==
    \A p \in Procs :
        (req[p].pc = "decided" /\ req[p].info.denied /\ req'[p].pc # "decided") =>
            LET r == out'.resp
                reset == req[p].info.reset
            IN  /\ out'.kind = "response"
                /\ out'.by = p
                /\ r.status = 429
                /\ r.headers["content-type"] = "application/json"
                /\ r.body.error = "rate_limit_exceeded"
                /\ r.body.message # None
                /\ r.headers["retry-after"] =
                        to_string(IF reset > unix_now THEN reset - unix_now ELSE 0)

C6_DeniedResponse == [][C6_Step]_vars

\* C6 witness: a 429 whose reset second (0) is already past when the response is
\* built, so that Retry-After is clamped to 0
C6_Witness ==
    /\ out.kind = "response"
    /\ out.resp.status = 429
    /\ out.resp.headers["x-ratelimit-reset"] = "0"
    /\ out.resp.headers["retry-after"] = "0"
    /\ unix_now >= 1

\* ------------------------------------------------------------------ claims, ingestion

\* The positions of the first n records of a page that convert, in order
Converting(page, n) ==
    SelectSeq([i \in 1..n |-> i], LAMBDA i : TryFrom(page[i]).ok)

\* C12: per-record fault isolation in a polling cycle.  Whatever failed before, the
\* offer upsert has been attempted for exactly the records of the page that
\* convert: for those before the current one while the loop runs, for all of them
\* once index_offers has returned, and it returns Ok whenever a page was fetched.
C12_FaultIsolation ==
    \A w \in Writers :
        ix[w].mode = "Polling" =>
            /\ ix[w].pc \in {"selling", "buying", "offer"} =>
                  /\ TryFrom(ix[w].page[ix[w].at]).ok
                  /\ ix[w].tried = Converting(ix[w].page, ix[w].at - 1)
            /\ (ix[w].pc = "sleep" /\ ix[w].result = "Ok") =>
                  /\ ix[w].tried = Converting(ix[w].page, Len(ix[w].page))
                  /\ ix[w].indexed <= Len(ix[w].tried)
            /\ (ix[w].pc = "sleep" /\ ix[w].result = "Err") => ix[w].page = <<>>

\* C12 witness: a cycle over a page of three records, the second of which does not
\* convert, returned Ok; the first and the third were attempted, an upsert of an
\* offer and the upsert of the last selling asset failed
C12_Witness ==
    \E w \in Writers :
        /\ ix[w].pc = "sleep"
        /\ ix[w].result = "Ok"
        /\ ix[w].page = <<Wire1a, WireBad, Wire2>>
        /\ ix[w].tried = <<1, 3>>
        /\ ix[w].indexed = 1
        /\ "selling" \in ix[w].failed

\* The offers of the feed that convert
FeedOffers == { TryFrom(w).offer : w \in { x \in Feed : TryFrom(x).ok } }

\* A table without its updated_at column
Strip(table) == { [c \in DOMAIN r \ {"updated_at"} |-> r[c]] : r \in table }

\* C13: upsert idempotence.  On the table as it stands and for every offer,
\* upserting the offer a second time, at the same or at a later database time, and
\* a third time after that, leaves the table as one upsert does, the updated_at
\* column aside.
C13_Idempotent ==
    \A o \in FeedOffers : \A later \in 0..1 :
        LET once == UpsertOfferRows(sdex_offers, o, dbnow)
            twice == UpsertOfferRows(once, o, dbnow + later)
            thrice == UpsertOfferRows(twice, o, dbnow + later + 1)
        IN  /\ Strip(twice) = Strip(once)
            /\ Strip(thrice) = Strip(once)

\* C13 witness: offer 1 was upserted, and upserted again later as the same wire
\* offer; its row is the row of the first upsert but for updated_at
C13_Witness ==
    \E r \in sdex_offers :
        /\ r.offer_id = 1
        /\ r.updated_at > r.created_at
        /\ Strip({r}) = Strip({OfferRow(TryFrom(Wire1a).offer, r.created_at)})
        /\ \E w \in Writers : ix[w].mode = "Streaming" /\ ix[w].pc = "next" /\ budget = 0

\* The rows of a table with the offer's id
RowsOf(table, o) == { r \in table : r.offer_id = as_i64(o.id) }

\* The step is a successful upsert_offer of writer w
OfferUpserted(w) == UpsertOfferOk(w) \/ StreamUpsertOfferOk(w)

C14_Step(w) ==
    LET o == ix[w].offer
        old == CHOOSE r \in RowsOf(sdex_offers, o) : TRUE
        new == CHOOSE r \in RowsOf(sdex_offers', o) : TRUE
    IN  (OfferUpserted(w) /\ RowsOf(sdex_offers, o) # {}) =>
            /\ Cardinality(RowsOf(sdex_offers', o)) = 1
            /\ new.seller_id = o.seller
            /\ new.amount = o.amount
            /\ new.price_n = o.price_n
            /\ new.price_d = o.price_d
            /\ new.price = o.price
            /\ new.last_modified_ledger = o.last_modified_ledger
            /\ new.last_modified_time = o.last_modified_time
            /\ new.updated_at = dbnow
            /\ new.created_at = old.created_at
            /\ new.selling = old.selling
            /\ new.buying = old.buying
            /\ sdex_offers' \ {new} = sdex_offers \ {old}

\* C14: a successful upsert_offer on an offer_id the table already holds leaves one
\* row for the id, with seller_id, amount, price_n, price_d, price,
\* last_modified_ledger and last_modified_time of the new offer and updated_at the
\* time of the statement; created_at, selling and buying of the row, and every
\* other row, are as before.
C14_OnConflict == [][\A w \in Writers : C14_Step(w)]_vars

\* C14 witness: offer 1, first stored as XLM for USDC of seller GA, was upserted
\* later as reported anew (seller GB, USDC for XLM): one row, the new seller and
\* amount, the first created_at and asset columns
C14_Witness ==
    /\ Cardinality({ r \in sdex_offers : r.offer_id = 1 }) = 1
    /\ \E r \in sdex_offers :
          /\ r.offer_id = 1
          /\ r.seller_id = "GB"
          /\ r.amount = "75.0"
          /\ r.selling = asset_key(TryFrom(Wire1a).offer.selling)
          /\ r.buying = asset_key(TryFrom(Wire1a).offer.buying)
          /\ r.selling # asset_key(TryFrom(Wire1b).offer.selling)
          /\ r.updated_at > r.created_at

\* The columns of a row that the conflict branch of upsert_offer writes from the offer
Mutable(r) ==
    <<r.seller_id, r.amount, r.price_n, r.price_d, r.price, r.last_modified_ledger,
      r.last_modified_time>>

\* One row for each offer_id, and its mutable columns are those of one offer
C15_OneWrite ==
    /\ \A r, q \in sdex_offers : r.offer_id = q.offer_id => r = q
    /\ \A r \in sdex_offers :
          \E o \in FeedOffers :
              /\ as_i64(o.id) = r.offer_id
              /\ Mutable(r) = Mutable(OfferRow(o, 0))

\* After a writer's upsert the one row of the id has that writer's mutable columns
C15_LastWins(w) ==
    OfferUpserted(w) =>
        /\ Cardinality(RowsOf(sdex_offers', ix[w].offer)) = 1
        /\ \A r \in RowsOf(sdex_offers', ix[w].offer) :
              Mutable(r) = Mutable(OfferRow(ix[w].offer, 0))

\* C15: two writers on the same tables, each upsert one atomic statement.  At all
\* times there is one row for an offer_id, its mutable columns are all those of one
\* of the writes, never a mixture, and each upsert leaves its own values: the
\* later write wins.
C15_Converge == []C15_OneWrite /\ [][\A w \in Writers : C15_LastWins(w)]_vars

\* C15 witness: the two writers received different reports of offer 1 and both
\* upserted; writer w2 wrote first (the asset columns are its own), writer w1 last
\* (the mutable columns are its own)
C15_Witness ==
    /\ ix["w1"].page = <<Wire1a>>
    /\ ix["w2"].page = <<Wire1b>>
    /\ \A w \in Writers :
          ix[w].mode = "Streaming" /\ ix[w].pc = "next" /\ ix[w].tried = <<1>>
              /\ "offer" \notin ix[w].failed
    /\ \E r \in sdex_offers :
          /\ sdex_offers = {r}
          /\ Mutable(r) = Mutable(OfferRow(TryFrom(Wire1a).offer, 0))
          /\ r.selling = asset_key(TryFrom(Wire1b).offer.selling)

\* The step after the step at pc `from` of a record's pipeline
C16_Then(w, from, to) ==
    (ix[w].pc = from /\ ix'[w] # ix[w]) =>
        /\ ix'[w].pc = to
        /\ ix'[w].offer = ix[w].offer
        /\ ix'[w].at = ix[w].at
        /\ ix'[w].tried = ix[w].tried

\* The step at the offer upsert is an attempt of it, recorded in tried
C16_Attempt(w, from) ==
    (ix[w].pc = from /\ ix'[w] # ix[w]) =>
        /\ ix'[w].tried # ix[w].tried
        /\ ix'[w].tried[Len(ix'[w].tried)] = ix[w].at

\* C16: in polling and in streaming mode, whatever the upsert of the selling asset
\* answers the upsert of the buying asset of the same offer is next, and whatever
\* that one answers the upsert of the offer is next and is attempted.
C16_AssetFailureContinues ==
    [][\A w \in Writers :
          /\ C16_Then(w, "selling", "buying")
          /\ C16_Then(w, "buying", "offer")
          /\ C16_Attempt(w, "offer")
          /\ C16_Then(w, "s_selling", "s_buying")
          /\ C16_Then(w, "s_buying", "s_offer")
          /\ C16_Attempt(w, "s_offer")]_vars

\* C16 witness: a streamed offer was stored although the upserts of both of its
\* assets had failed
C16_Witness ==
    /\ assets = {}
    /\ sdex_offers # {}
    /\ \E w \in Writers :
          /\ ix[w].mode = "Streaming"
          /\ ix[w].failed = {"selling", "buying"}
          /\ ix[w].tried = <<1>>
          /\ ix[w].pc = "next"

\* The polling processes
Pollers == { w \in Writers : ix[w].mode = "Polling" }

\* A failed fetch is followed by the sleep, and the sleep by the next fetch
C17_Continues(w) ==
    /\ (ix[w].pc = "fetching" /\ ix'[w].pc # "fetching" /\ ix'[w].page = <<>>) =>
          ix'[w].pc = "sleep"
    /\ (ix[w].pc = "sleep" /\ ix'[w] # ix[w]) =>
          (ix'[w].pc = "fetching" /\ ix'[w].slept = PollSleepSecs)

\* C17: start_polling never returns; a cycle whose fetch failed is followed by the
\* sleep and the sleep by the next fetch; and a fetch is issued again and again.
C17_PollsForever ==
    /\ [](\A w \in Pollers : ix[w].pc # "returned")
    /\ [][\A w \in Pollers : C17_Continues(w)]_vars
    /\ []<>(\A w \in Pollers : ix[w].pc = "fetching")

\* C17 witness: the cycle before ended in an error of the fetch, the process slept
\* and is issuing the next fetch
C17_Witness ==
    \E w \in Pollers :
        /\ ix[w].pc = "fetching"
        /\ ix[w].result = "Err"
        /\ ix[w].slept = PollSleepSecs

\* A fetch is issued by the step: the process comes to await get_offers
C18_Fetches(w) == ix[w].pc # "fetching" /\ ix'[w].pc = "fetching"

\* Between two fetches of a process there is a sleep
C18_SleepBetweenFetches ==
    [][\A w \in Writers : C18_Fetches(w) => (ix[w].pc = "sleep" /\ ix'[w].slept > 0)]_vars

\* C18 as stated: no fetch follows another without a sleep in between, and the
\* sleep lasts the configured poll interval, IndexerConfig.poll_interval_secs
\* (POLL_INTERVAL_SECS, here left at its default).
C18_SleepIsConfigured ==
    [][\A w \in Writers :
          C18_Fetches(w) =>
              (ix[w].pc = "sleep" /\ ix'[w].slept = default_poll_interval_secs)]_vars

\* The step handles an item of the open stream that is an error, does not convert,
\* or whose offer upsert is answered: the loop awaits the next item
C19_ItemKeepsLoop(w) ==
    /\ ix'[w].bad # ix[w].bad => (ix[w].pc = "next" /\ ix'[w].pc = "next")
    /\ (ix[w].pc = "next" /\ ix'[w] # ix[w] /\ budget' # budget) =>
          ix'[w].pc \in {"next", "s_selling"}
    /\ (ix[w].pc = "s_offer" /\ ix'[w] # ix[w]) => ix'[w].pc = "next"

\* The step is the return of start_streaming
C19_Returns(w) ==
    ix[w].mode = "Streaming" /\ ix[w].pc # "returned" /\ ix'[w].pc = "returned"

\* C19 as stated: no item ends the loop, and start_streaming returns only when the
\* stream has ended, with Ok.
C19_ReturnsOnlyAtStreamEnd ==
    [][\A w \in Writers :
          /\ C19_ItemKeepsLoop(w)
          /\ C19_Returns(w) =>
                (ix[w].pc = "next" /\ ix'[w].stream = "ended" /\ ix'[w].result = "Ok")]_vars

\* C19, amended: once the stream is open no item ends the loop, and the call
\* returns from the loop only when the stream has ended, with Ok; the one other
\* return is the error of stream_offers, before any item.
C19_ReturnsAtStreamEndOrOpenError ==
    [][\A w \in Writers :
          /\ C19_ItemKeepsLoop(w)
          /\ C19_Returns(w) =>
                \/ ix[w].pc = "next" /\ ix'[w].stream = "ended" /\ ix'[w].result = "Ok"
                \/ /\ ix[w].pc = "open"
                   /\ ix'[w].stream = None
                   /\ ix'[w].result = "Err"
                   /\ ix'[w].bad = 0
                   /\ ix'[w].tried = <<>>]_vars

\* C19 witness: an item was in error or did not convert, the item after it was
\* upserted, then the stream ended and the call returned Ok
C19_Witness ==
    \E w \in Writers :
        /\ ix[w].mode = "Streaming"
        /\ ix[w].bad >= 1
        /\ ix[w].tried = <<1>>
        /\ "offer" \notin ix[w].failed
        /\ ix[w].pc = "returned"
        /\ ix[w].stream = "ended"
        /\ ix[w].result = "Ok"

\* The offer_ids in a table of offers, and the triples in a table of assets
OfferIds(table) == { r.offer_id : r \in table }

AssetTriples(table) == { <<r.asset_type, r.asset_code, r.asset_issuer>> : r \in table }

\* C20: no step of the ingestion removes a row: the offer_ids of sdex_offers and
\* the triples of assets only grow, and the number of rows never falls.
C20_NeverDeletes ==
    [][/\ OfferIds(sdex_offers) \subseteq OfferIds(sdex_offers')
       /\ AssetTriples(assets) \subseteq AssetTriples(assets')
       /\ Cardinality(sdex_offers) <= Cardinality(sdex_offers')
       /\ Cardinality(assets) <= Cardinality(assets')]_vars

\* C20 witness: offers 1 and 2 were stored from one page; the page of the next
\* cycle held offer 1 only, its upsert succeeded and the cycle is over; offer 2 is
\* still in the table
C20_Witness ==
    /\ OfferIds(sdex_offers) = {1, 2}
    /\ AssetTriples(assets) # {}
    /\ \E w \in Pollers :
          /\ ix[w].pc = "sleep"
          /\ ix[w].result = "Ok"
          /\ ix[w].page = <<Wire1b>>
          /\ ix[w].indexed = 1

\* No record of the page between positions i and j converts
C21_Skipped(page, i, j) == \A k \in i + 1..j - 1 : ~TryFrom(page[k]).ok

\* A step of a polling process: the first record started is the first that
\* converts; a record's steps are selling, buying, offer at one position; the
\* position moves forward only after the upsert of the offer, over records that
\* do not convert, to a record whose conversion is the offer in hand
C21_PollingOrder(w) ==
    (ix[w].mode = "Polling" /\ ix'[w] # ix[w]) =>
        /\ ix[w].pc = "fetching" => ix'[w].pc \in {"selling", "sleep"}
        /\ ix[w].pc = "selling" => ix'[w].pc = "buying"
        /\ ix[w].pc = "buying" => ix'[w].pc = "offer"
        /\ ix[w].pc = "offer" => ix'[w].pc \in {"selling", "sleep"}
        /\ ix[w].pc \in {"selling", "buying"} =>
              (ix'[w].at = ix[w].at /\ ix'[w].offer = ix[w].offer /\ ix'[w].page = ix[w].page)
        /\ ix[w].pc = "offer" =>
              (ix'[w].at > ix[w].at /\ ix'[w].page = ix[w].page
                  /\ C21_Skipped(ix[w].page, ix[w].at, ix'[w].at))
        /\ ix[w].pc = "fetching" => C21_Skipped(ix'[w].page, 0, ix'[w].at)
        /\ ix'[w].pc = "selling" =>
              (ix'[w].at \in 1..Len(ix'[w].page)
                  /\ ix'[w].offer = TryFrom(ix'[w].page[ix'[w].at]).offer)
        /\ (ix[w].pc = "offer" /\ ix'[w].pc = "sleep") => ix'[w].at = Len(ix[w].page) + 1

\* A step of a streaming process: an item is taken from the stream only while no
\* item is in hand, and its steps are selling, buying, offer
C21_StreamingOrder(w) ==
    (ix[w].mode = "Streaming" /\ ix'[w] # ix[w]) =>
        /\ budget' # budget => ix[w].pc = "next"
        /\ ix'[w].page # ix[w].page => ix[w].pc = "next"
        /\ ix[w].pc = "s_selling" => ix'[w].pc = "s_buying"
        /\ ix[w].pc = "s_buying" => ix'[w].pc = "s_offer"
        /\ ix[w].pc = "s_offer" => ix'[w].pc = "next"
        /\ ix'[w].pc = "s_selling" =>
              (ix[w].pc = "next" /\ ix'[w].offer = TryFrom(ix'[w].page[1]).offer)
        /\ ix[w].pc \in {"s_selling", "s_buying"} => ix'[w].offer = ix[w].offer

\* C21: the records of a page and the items of a stream are processed one after
\* the other in the order received; a record's steps are conversion, upsert of
\* the selling asset, of the buying asset, of the offer; the next record is begun
\* only after the upsert of the offer of the one before has been answered, or the
\* record before did not convert.
C21_ReceiptOrder ==
    [][\A w \in Writers : C21_PollingOrder(w) /\ C21_StreamingOrder(w)]_vars

\* C21 witness: the third record of a page is at its first upsert, after the
\* offer upsert of the first and the skipping of the second
C21_Witness ==
    \E w \in Writers :
        /\ ix[w].mode = "Polling"
        /\ ix[w].page = <<Wire1a, WireBad, Wire2>>
        /\ ix[w].pc = "selling"
        /\ ix[w].at = 3
        /\ ix[w].tried = <<1>>
        /\ ix[w].offer = TryFrom(Wire2).offer

\* Wire offers of every kind: ids that are numbers, no numbers or empty, assets
\* native, complete or without issuer, denominators from 0
WireInputs ==
    Feed \cup
    { HorizonOffer(id, "GA", selling, buying, "1.0", "1.0", 1, d, 1, None) :
        id \in {<<"1">>, <<"N", "a", "N">>, <<"1", "x">>, <<>>},
        selling \in {XLM, USDC, AssetJSON("credit_alphanum4", "USDC", None)},
        buying \in {XLM, USDC, AssetJSON("credit_alphanum4", "USDC", None)},
        d \in 0..2 }

\* The id of a wire offer is no number
NonNumeric(cs) == cs = <<>> \/ \E i \in 1..Len(cs) : DigitVal(cs[i]) < 0

\* An offer as the data model wants it
ValidOffer(o) == o.selling # o.buying /\ o.price_d > 0

\* Conversion yields a valid offer or fails, and fails on the three kinds of record
C22_Conversion ==
    \A w \in WireInputs :
        /\ TryFrom(w).ok => ValidOffer(TryFrom(w).offer)
        /\ (NonNumeric(w.id) \/ w.selling = w.buying \/ w.price_r.d = 0) => ~TryFrom(w).ok

AssetRowsOf(table, k) ==
    { r \in table : <<r.asset_type, r.asset_code, r.asset_issuer>> = k }

\* The asset a process is about to upsert, and the name of that step
C23_Asset(w) ==
    IF ix[w].pc \in {"selling", "s_selling"} THEN ix[w].offer.selling ELSE ix[w].offer.buying

C23_StepName(w) == IF ix[w].pc \in {"selling", "s_selling"} THEN "selling" ELSE "buying"

\* A successful upsert_asset leaves one row for the asset's triple; if there was
\* one it differs in updated_at only; every other row is as before
C23_Upsert(w) ==
    LET k == asset_key(C23_Asset(w))
        old == CHOOSE r \in AssetRowsOf(assets, k) : TRUE
        new == CHOOSE r \in AssetRowsOf(assets', k) : TRUE
    IN  (/\ ix[w].pc \in {"selling", "buying", "s_selling", "s_buying"}
         /\ ix'[w] # ix[w]
         /\ C23_StepName(w) \notin ix'[w].failed) =>
            /\ Cardinality(AssetRowsOf(assets', k)) = 1
            /\ new.updated_at = dbnow
            /\ IF AssetRowsOf(assets, k) # {}
               THEN /\ new = [old EXCEPT !.updated_at = dbnow]
                    /\ assets' \ {new} = assets \ {old}
               ELSE /\ new.created_at = dbnow
                    /\ assets' \ {new} = assets

\* C23: the assets table holds at most one row for a triple (type, code, issuer),
\* absent values counting as equal; after a successful upsert of an asset, native
\* or not, there is exactly one row for it, and an upsert that meets a row
\* changes its updated_at only.
C23_OneRowPerTriple ==
    /\ [](\A r, q \in assets :
             <<r.asset_type, r.asset_code, r.asset_issuer>>
                 = <<q.asset_type, q.asset_code, q.asset_issuer>> => r = q)
    /\ [][\A w \in Writers : C23_Upsert(w)]_vars

\* C23 witness: the native asset was upserted, and upserted again later; there is
\* one row for it, with absent code and issuer and a later updated_at
C23_Witness ==
    /\ Cardinality({ r \in assets : r.asset_type = "native" }) = 1
    /\ \E r \in assets :
          /\ r.asset_type = "native"
          /\ r.asset_code = None
          /\ r.asset_issuer = None
          /\ r.updated_at > r.created_at

\* C24 as stated: once sdex_offers holds an offer selling native and buying the
\* credit asset USDC, the response list_pairs computes from the tables has a pair
\* with base "XLM", counter "USDC", base_asset "native", counter_asset
\* "USDC:" + issuer and offer_count >= 1.
C24_PairListed ==
    (\E r \in sdex_offers :
        /\ r.selling = <<"native", None, None>>
        /\ r.buying = <<"credit_alphanum4", "USDC", "GISSUER">>) =>
    \E p \in PairsResponse(sdex_offers, assets).pairs :
        /\ p.base = "XLM"
        /\ p.counter = "USDC"
        /\ p.base_asset = "native"
        /\ p.counter_asset = "USDC:GISSUER"
        /\ p.offer_count >= 1

\* The addresses that the header values of the model spell
IpOf(tok) ==
    CASE tok \in {"10.0.0.1", " 10.0.0.1"} -> "10.0.0.1"
      [] tok = " 10.0.0.2 " -> "10.0.0.2"
      [] tok = "10.0.0.2" -> "10.0.0.2"
      [] tok = "203.0.113.5" -> "203.0.113.5"
      [] tok = "2001:DB8::1" -> "2001:db8::1"
      [] OTHER -> None

\* C25: the client of a request is the address spelled by the leftmost token of
\* X-Forwarded-For, blanks trimmed; if the header is absent or that token spells
\* no address, the address X-Real-IP spells; if that is absent or spells none,
\* 127.0.0.1.
C25_ClientIdentity ==
    call.fn = "extract_ip" =>
        LET h == call.arg
            first == IF h.xff = <<>> THEN None ELSE IpOf(h.xff[1])
            real == IF h.xreal = None THEN None ELSE IpOf(h.xreal)
        IN  /\ first # None => call.ret = first
            /\ (first = None /\ real # None) => call.ret = real
            /\ (first = None /\ real = None) => call.ret = "127.0.0.1"

\* C25 witness: the leftmost token of X-Forwarded-For is no address, the token
\* after it is one, and the client is the address of X-Real-IP
C25_Witness ==
    /\ call.fn = "extract_ip"
    /\ call.arg = [xff |-> <<"not-an-ip", "10.0.0.2">>, xreal |-> " 10.0.0.1"]
    /\ call.ret = "10.0.0.1"

\* The limit and the slug the paths of the model are to get
C26_Expected(path) ==
    CASE path \in {"/api/v1/pairs", "/api/v1/pairsx"} -> <<60, "pairs">>
      [] path \in {"/api/v1/orderbook", "/api/v1/orderbook/X/Y"} -> <<30, "orderbook">>
      [] path \in {"/api/v1/quote", "/api/v1/quote/X"} -> <<100, "quote">>
      [] path = "/health" -> <<200, "health">>
      [] path = "/pairs" -> <<200, "pairs">>
      [] path = "/api/v1" -> <<200, "api_v1">>
      [] path = "/api/v2/pairs" -> <<200, "api_v2_pairs">>
      [] path = "//a/b/" -> <<200, "a_b_">>
      [] path = "/" -> <<200, "">>

\* C26: a request on a path that starts with /api/v1/pairs, /api/v1/orderbook or
\* /api/v1/quote is checked against that group's configuration (60, 30, 100 by
\* default) under the slug pairs, orderbook or quote; a request on any other path
\* against the default configuration (200) under the path without its leading
\* slashes and with "_" for every other slash; the key is "rate_limit:", the
\* slug, ":" and the client's address.
C26_RoutingAndKey ==
    call.fn = "route" =>
        /\ call.ret.max_requests = C26_Expected(call.arg[1])[1]
        /\ call.ret.slug = C26_Expected(call.arg[1])[2]
        /\ call.ret.key = "rate_limit:" \o C26_Expected(call.arg[1])[2] \o ":" \o call.ret.ip

\* C26 witness: a path of the default group with two leading slashes and slashes
\* inside, from a client named by X-Forwarded-For
C26_Witness ==
    /\ call.fn = "route"
    /\ call.arg[1] = "//a/b/"
    /\ call.ret.max_requests = 200
    /\ call.ret.key = "rate_limit:a_b_:10.0.0.1"

\* C27: a request to list_pairs that met a failure of the cache (no cache, its
\* Mutex held, a get that missed or did not decode, a set that failed) returns
\* the response computed from the tables, unless the query itself failed; the
\* only error list_pairs returns is the database error.
C27_CacheNeverFatal ==
    \A p \in Procs :
        lp[p].pc = "done" =>
            /\ ~lp[p].result.ok => (lp[p].result.error = "Database" /\ lp[p].response = {})
            /\ (lp[p].result.ok /\ lp[p].seen # {}) =>
                  /\ lp[p].response = {PairsResponse(sdex_offers, assets)}
                  /\ lp[p].result.body = lp[p].response
            /\ lp[p].response # {} => lp[p].result.ok

\* C27 witness: a request found the Mutex of the cache held by another request,
\* queried the tables, failed to set the cache, and returned the one pair
C27_Witness ==
    \E p \in Procs :
        /\ lp[p].pc = "done"
        /\ lp[p].seen = {"locked", "set_failed"}
        /\ lp[p].result.ok
        /\ \E body \in lp[p].result.body :
              /\ body.total = 1
              /\ \E t \in body.pairs : t.base = "XLM" /\ t.counter_asset = "USDC:GISSUER"

\* C28: the statuses of the errors are 400 for BadRequest, Validation and
\* InvalidAsset, 401 for Unauthorized, 404 for NotFound and NoRouteFound, 429 for
\* RateLimitExceeded, 500 for Database and Internal; the body of Database and
\* Internal is error "internal_error" with the message "An internal error
\* occurred", whatever the error holds.
C28_Status(variant) ==
    CASE variant \in {"BadRequest", "Validation", "InvalidAsset"} -> 400
      [] variant = "Unauthorized" -> 401
      [] variant \in {"NotFound", "NoRouteFound"} -> 404
      [] variant = "RateLimitExceeded" -> 429
      [] variant \in {"Database", "Internal"} -> 500

C28_ErrorMapping ==
    call.fn = "into_response" =>
        /\ call.ret.status = C28_Status(call.arg.variant)
        /\ call.arg.variant \in {"Database", "Internal"} =>
              /\ call.ret.error = "internal_error"
              /\ call.ret.message = "An internal error occurred"

\* C28 witness: a Database error holding a connection string was mapped
C28_Witness ==
    /\ call.fn = "into_response"
    /\ call.arg.variant = "Database"
    /\ call.arg.msg = "connection refused: postgres://api:hunter2@db/stellar"
    /\ call.ret.status = 500

\* C29: to_canonical is "native" without a code, code ":" issuer with both, the
\* code alone without an issuer; display_name is the code, or "XLM" without one.
C29_Joined(code, issuer) ==
    CASE code = "USDC" /\ issuer = "GISSUER" -> "USDC:GISSUER"
      [] code = "USDC" /\ issuer = "GOTHER" -> "USDC:GOTHER"
      [] code = "LONGCODE" /\ issuer = "GISSUER" -> "LONGCODE:GISSUER"
      [] code = "LONGCODE" /\ issuer = "GOTHER" -> "LONGCODE:GOTHER"
      [] code = "" /\ issuer = "GISSUER" -> ":GISSUER"
      [] code = "" /\ issuer = "GOTHER" -> ":GOTHER"

C29_CanonicalForm ==
    call.fn = "canonical" =>
        LET info == call.arg IN
        /\ info.asset_code = None =>
              call.ret.canonical = "native" /\ call.ret.display = "XLM"
        /\ (info.asset_code # None /\ info.asset_issuer # None) =>
              call.ret.canonical = C29_Joined(info.asset_code, info.asset_issuer)
        /\ (info.asset_code # None /\ info.asset_issuer = None) =>
              call.ret.canonical = info.asset_code
        /\ info.asset_code # None => call.ret.display = info.asset_code

\* C29 witness: a credit asset with its issuer was put in canonical form
C29_Witness ==
    /\ call.fn = "canonical"
    /\ call.arg = AssetInfo_credit("USDC", "GISSUER")
    /\ call.ret.canonical = "USDC:GISSUER"
    /\ call.ret.display = "USDC"

\* C30: a server whose Redis is configured and reachable (its AppState has the
\* cache connected) decides every request over the Redis backend, and its
\* in-memory store holds no window for the keys it decided.
C30_RedisPrimary ==
    \A k \in Keys :
        (cache.present /\ hist[k] # <<>>) =>
            /\ backend = "Redis"
            /\ windows[k] = NoEntry

\* C31: key is ("native", absent, absent) for Native and (the tag of the
\* variant, the code, the issuer) for a credit asset, and two assets are equal
\* exactly when their keys are.
C31_Tag(a) ==
    CASE a.variant = "Native" -> "native"
      [] a.variant = "CreditAlphanum4" -> "credit_alphanum4"
      [] a.variant = "CreditAlphanum12" -> "credit_alphanum12"

C31_KeyProjection ==
    call.fn = "key" =>
        LET a == call.arg[1]
            b == call.arg[2]
        IN  /\ call.ret.ka[1] = C31_Tag(a)
            /\ a.variant = "Native" => (call.ret.ka[2] = None /\ call.ret.ka[3] = None)
            /\ a.variant # "Native" =>
                  (call.ret.ka[2] = a.asset_code /\ call.ret.ka[3] = a.asset_issuer)
            /\ call.ret.eq <=> (call.ret.ka = call.ret.kb)

\* C31 witness: the keys of USDC as CreditAlphanum4 and as CreditAlphanum12 of
\* one issuer were taken; the assets differ and so do the keys
C31_Witness ==
    /\ call.fn = "key"
    /\ call.arg = <<CreditAlphanum4("USDC", "GISSUER"), CreditAlphanum12("USDC", "GISSUER")>>
    /\ ~call.ret.eq
    /\ call.ret.ka # call.ret.kb

\* C32: a get answers the value of the last set Redis accepted, when that set is
\* the last write under the key, its TTL has not passed, Redis answers the GET
\* and the string decodes; in every other case (a delete was the last write,
\* nothing was written, the TTL has passed, Redis fails, the string does not
\* decode) it answers absent; its answer is an Option, never an error.
C32_GetStep ==
    CacheGet =>
        LET r == call'.ret
            w == cache.last
        IN  /\ (w.op = "set" /\ w.decodes /\ clock < w.exp /\ r.redis_ok) => r.value = w.v
            /\ (w.op # "set" \/ ~w.decodes \/ clock >= w.exp \/ ~r.redis_ok) => r.value = {}
            /\ Cardinality(r.value) <= 1

C32_GetAfterSet == [][C32_GetStep]_vars

\* C32 witness: a response was set for two seconds and read back one second later
C32_Witness ==
    /\ call.fn = "get"
    /\ call.arg = 1
    /\ cache.last = Wrote("set", {PairsResponse(SeedOffers, SeedAssets)}, TRUE, 2)
    /\ call.ret.value = {PairsResponse(SeedOffers, SeedAssets)}

\* C33: call returns for a decided request with the inner service called not at
\* all when the decision is denied and exactly once when it is not; the inner
\* service is called only for a request whose check is finished and not denied,
\* and, as the claim has it, whose check incremented the counter of its key.
C33_Leaves(p) == req[p].pc = "decided" /\ req'[p].pc = "idle"

C33_Order ==
    \A p \in Procs :
        /\ (C33_Leaves(p) /\ req[p].info.denied) => (out'.by = p /\ out'.fwd = 0)
        /\ (C33_Leaves(p) /\ ~req[p].info.denied) => (out'.by = p /\ out'.fwd = 1)
        /\ (out'.by = p /\ out'.fwd > 0) => (req[p].pc = "decided" /\ ~req[p].info.denied)

C33_CheckThenForwardCounted ==
    [][/\ C33_Order
       /\ \A p \in Procs : (out'.by = p /\ out'.fwd > 0) => req[p].counted]_vars

\* C33 amended: the counter was incremented before the inner service is called,
\* unless the INCR of the check failed and the request was allowed uncounted
C33_CheckThenForward ==
    [][/\ C33_Order
       /\ \A p \in Procs :
             (out'.by = p /\ out'.fwd > 0) =>
                 (req[p].counted <=> "INCR" \notin req[p].failed)]_vars

\* C33 witness: call returned the response of the inner service for a request
\* whose INCR had raised the counter of its key to 1
C33_Witness ==
    /\ out.kind = "response"
    /\ out.fwd = 1
    /\ \E k \in Keys : redis[k].present /\ redis[k].count = 1 /\ Len(hist[k]) = 1
                        /\ hist[k][1].info.remaining = hist[k][1].info.limit - 1

\* C34: the check of a request to a path of the default group leaves the counter
\* of the pairs group of its client as it was.
C34_DefaultLeavesPairsQuota ==
    [][\A p \in Procs :
          (req[p].pc = "mem_decide" /\ for_path(req[p].path) = "default") =>
              windows'[KeyOf("/api/v1/pairs", req[p].hdr)]
                  = windows[KeyOf("/api/v1/pairs", req[p].hdr)]]_vars

\* C35: given the same checks of one key at the same times, with every Redis
\* command answered, redis_check and InMemoryStore::check return the same limit,
\* remaining and denied at every check; inside a window the in-memory counter is
\* the smaller of the limit and the Redis counter, which counts every check.
C35_Key == KeyOf("/api/v1/pairs", [xff |-> <<"10.0.0.1", "10.9.9.9">>, xreal |-> None])

C35_BackendEquivalence ==
    /\ call.fn = "check" =>
          /\ call.ret.mem.limit = call.ret.redis.limit
          /\ call.ret.mem.remaining = call.ret.redis.remaining
          /\ call.ret.mem.denied = call.ret.redis.denied
    /\ (RedisLive(C35_Key) /\ windows[C35_Key].present
            /\ now - windows[C35_Key].start < WindowTicks) =>
          windows[C35_Key].count = Min(redis[C35_Key].count, LimitOfKey(C35_Key))

\* C35 witness: a check denied by both backends with the Redis counter two above
\* a positive limit and the in-memory counter at the limit
C35_Witness ==
    /\ call.fn = "check"
    /\ call.ret.mem.denied
    /\ call.ret.redis.denied
    /\ LimitOfKey(C35_Key) >= 1
    /\ redis[C35_Key].count = LimitOfKey(C35_Key) + 2
    /\ windows[C35_Key].count = LimitOfKey(C35_Key)

\* C36: the count of an entry of the in-memory store is at most max_requests of
\* the last allowed check of its key, and neither max_requests - count after the
\* increment nor window - elapsed is negative, whatever configs and times the
\* checks come with.
C36_NoUnderflow ==
    /\ call.fn = "store_check" =>
          /\ call.ret.left >= 0
          /\ call.ret.rest >= 0
          /\ call.ret.info.remaining >= 0
          /\ \A k \in Keys : windows[k].count <= call.ret.allowed_max
    /\ call.fn # "store_check" => \A k \in Keys : windows[k].count = 0

\* C36 witness: a check with limit 0 and window 0 was denied on an entry that an
\* earlier check with limit 2 had counted up
C36_Witness ==
    /\ call.fn = "store_check"
    /\ call.arg = [max_requests |-> 0, window |-> 0]
    /\ call.ret.info.denied
    /\ call.ret.allowed_max = 2
    /\ now >= 1

\* C37: list_pairs returns the response under pairs:list without a query when
\* the cache has one and its lock is free; it queries the database only when
\* the cache is absent, its lock is held or the get answered nothing; after the
\* query, with the lock free, the response is stored for 10 seconds.
C37_CacheAside(p) ==
    /\ PairsGetHit(p) =>
          /\ cache.lock = p
          /\ lp'[p].response = {}
          /\ \E v \in cache.val :
                /\ v.valid
                /\ clock < v.exp
                /\ v.exp <= cache.last.exp \/ cache.last = NoWrite
                /\ lp'[p].result = PairsOk(v.response)
    /\ (lp[p].pc # "query" /\ lp'[p].pc = "query") =>
          \/ ~cache.present
          \/ cache.lock \notin {None, p}
          \/ lp[p].pc = "get" /\ cache.lock = p
    /\ (lp[p].pc = "query" /\ lp'[p].pc = "store") =>
          lp'[p].response = {PairsResponse(sdex_offers, assets)}
    /\ (lp[p].pc = "store" /\ cache.present /\ cache.lock = None) =>
          lp'[p].pc \in {"store", "set"}
    /\ (lp[p].pc = "set" /\ lp'[p].pc = "done" /\ cache'.val # cache.val) =>
          /\ cache'.val = {Stored(The(lp[p].response), TRUE, clock + PairsTtlSecs, lp[p].at)}
          /\ cache'.last.exp = clock + PairsTtlSecs

\* C37 as stated: and a served response was computed from the database at most
\* 10 seconds before it is served
C37_ServedAge(p) ==
    (lp[p].pc # "done" /\ lp'[p].pc = "done" /\ lp'[p].result.ok) =>
        clock - lp'[p].at <= PairsTtlSecs

C37_NeverOlderThanTtl ==
    [][\A p \in Procs : C37_CacheAside(p) /\ C37_ServedAge(p)]_vars

\* C37 as amended: a response served from the cache was stored less than 10
\* seconds before it is served
C37_StoredLessThanTtlAgo ==
    [][\A p \in Procs : C37_CacheAside(p)]_vars

\* C37 witness: a request was served from the cache, without a query, the
\* response another request had computed 11 seconds earlier and stored 9 seconds
\* earlier
C37_Witness ==
    \E p \in Procs :
        /\ lp[p].pc = "done"
        /\ lp[p].result.ok
        /\ lp[p].response = {}
        /\ lp[p].seen = {}
        /\ clock - lp[p].at = 11
        /\ cache.last.op = "set"
        /\ cache.last.exp = clock - 9 + PairsTtlSecs

\* The groups of a table of offers over PoolAssets, each named by the ids of its
\* two assets: an offer with a NULL id joins no asset and is in no group
C38_Groups(offers) ==
    { <<The(o.selling_asset_id), The(o.buying_asset_id)>> :
        o \in { o \in offers : o.selling_asset_id # {} /\ o.buying_asset_id # {} } }

\* The number of offers of a group
C38_Count(offers, g) ==
    Cardinality({ o \in offers : o.selling_asset_id = {g[1]} /\ o.buying_asset_id = {g[2]} })

\* The canonical form of the asset of PoolAssets with an id
C38_Canonical(id) ==
    CASE id = 1 -> "native" [] id = 2 -> "USDC:GISSUER" [] id = 3 -> "EURT:GISSUER"

\* C38: every PairsResponse that the query and the loop of list_pairs build has
\* total equal to the length of pairs; it has at most as many pairs as the
\* LIMIT of the query, which is 100, and exactly as many as there are groups when
\* these are fewer; every pair is the pair of one group of offers, with the
\* number of offers of the group as offer_count, and no group has two pairs;
\* the offer_count of the pairs never increases along the list
C38_PairsResponseShape ==
    call.fn = "pairs" =>
        LET r == call.ret.response
            n == Len(r.pairs)
            groups == C38_Groups(call.arg.offers)
        IN  /\ r.total = n
            /\ n <= call.arg.limit
            /\ PairsLimit = 100
            /\ call.arg.limit <= PairsLimit
            /\ n = IF Cardinality(groups) < call.arg.limit THEN Cardinality(groups)
                          ELSE call.arg.limit
            /\ \A i \in 1..n :
                  \E g \in groups :
                     /\ r.pairs[i].base_asset = C38_Canonical(g[1])
                     /\ r.pairs[i].counter_asset = C38_Canonical(g[2])
                     /\ r.pairs[i].offer_count = C38_Count(call.arg.offers, g)
            /\ \A i, j \in 1..n :
                  i # j => <<r.pairs[i].base_asset, r.pairs[i].counter_asset>>
                              # <<r.pairs[j].base_asset, r.pairs[j].counter_asset>>
            /\ \A i, j \in 1..n : i < j => r.pairs[i].offer_count >= r.pairs[j].offer_count

\* list_pairs, with its limit of 100, has answered three pairs, the first of
\* two offers and the last of one, over a table that also holds an offer with
\* NULL ids
C38_Witness ==
    /\ call.fn = "pairs"
    /\ call.arg.limit = PairsLimit
    /\ call.arg.offers = PoolOffers
    /\ call.ret.response.total = 3
    /\ call.ret.response.pairs[1].offer_count = 2
    /\ call.ret.response.pairs[3].offer_count = 1

\* C39: the offer_id that upsert_offer writes equals the id of the offer, the
\* last_modified_ledger it writes equals that of the offer, and two offers with
\* different ids are written to two rows
C39_IdPreserved ==
    call.fn = "upsert_offer" =>
        /\ \A i \in 1..2 :
              \E r \in call.ret :
                 /\ r.offer_id = call.arg[i].id
                 /\ r.last_modified_ledger = call.arg[i].last_modified_ledger
        /\ call.arg[1].id # call.arg[2].id => Cardinality(call.ret) = 2

\* What the conversion of the id keeps: two offers with different ids are
\* written to two rows, and an id below 2^(IdBits-1) is written unchanged
C39_DistinctRows ==
    call.fn = "upsert_offer" =>
        /\ call.arg[1].id # call.arg[2].id => Cardinality(call.ret) = 2
        /\ \A i \in 1..2 :
              call.arg[i].id < 2 ^ (IdBits - 1) =>
                 \E r \in call.ret : r.offer_id = call.arg[i].id

\* ------------------------------------------------------------------ claims, reset

\* C11 as stated: reset is the UTC second at which the key's current window ends.
\* All checks of one key that were decided in the same window report the same
\* reset, and every check reports a reset between now and now + window.
C11_SameReset ==
    \A k \in Keys : \A i, j \in 1..Len(hist[k]) :
        hist[k][i].ws = hist[k][j].ws => hist[k][i].info.reset = hist[k][j].info.reset

C11_ResetInWindow ==
    \A k \in Keys : \A i \in 1..Len(hist[k]) :
        /\ as_secs(hist[k][i].at) <= hist[k][i].info.reset
        /\ hist[k][i].info.reset <= unix_now + endpoint_config.window

C11_ResetIsWindowEnd == C11_SameReset /\ C11_ResetInWindow

\* ------------------------------------------------------------------ claims, Redis

\* The decision a check that failed open returns: allowed, nothing used, reset a
\* whole window from now
SyntheticAllow(p) ==
    [limit |-> ConfigOf(for_path(req[p].path)).max_requests,
     remaining |-> ConfigOf(for_path(req[p].path)).max_requests,
     reset |-> unix_now + endpoint_config.window,
     denied |-> FALSE]

\* The request p ends its check in this step.
Decides(p) == req[p].pc # "decided" /\ req'[p].pc = "decided"

\* C2 as stated: whenever any Redis command of a check fails (INCR, EXPIRE or TTL),
\* the check returns the synthetic allow decision: denied = false, remaining =
\* limit, reset = now + window.
C2_FailOpenAnyCommand ==
    [][\A p \in Procs :
          (Decides(p) /\ req'[p].failed # {}) => req'[p].info = SyntheticAllow(p)]_vars

\* C2 as amended: whenever the INCR of a check fails, the check returns the
\* synthetic allow decision; a failed TTL only makes reset = now + window, and the
\* decision of a check whose INCR succeeded is taken from the count, whatever failed
\* after it.
C2_FailOpenOnIncr ==
    [][\A p \in Procs :
          Decides(p) =>
              /\ "INCR" \in req'[p].failed => req'[p].info = SyntheticAllow(p)
              /\ "TTL" \in req'[p].failed =>
                      req'[p].info.reset = unix_now + endpoint_config.window
              /\ "INCR" \notin req'[p].failed =>
                      LET L == SyntheticAllow(p).limit
                          c == redis[key(p)].count
                      IN  /\ req'[p].info.limit = L
                          /\ req'[p].info.denied = (c > L)
                          /\ req'[p].info.remaining = Max(0, L - c)]_vars

\* C2 witness: a check whose INCR failed was allowed although the key's counter
\* stands above the limit
C2_Witness ==
    \E p \in Procs :
        /\ req[p].pc = "decided"
        /\ "INCR" \in req[p].failed
        /\ ~req[p].info.denied
        /\ RedisLive(key(p))
        /\ redis[key(p)].count > config(p).max_requests

\* C8 as stated: every key that INCR created has a TTL once the check that created
\* it is past its EXPIRE, so that its counter is reset when the window ends.
C8_KeyHasTtl ==
    \A k \in Keys :
        (RedisLive(k) /\ ~\E p \in Procs : req[p].pc = "expire" /\ key(p) = k) =>
            redis[k].exp # -1

====
